---- MODULE Spec2Model ----
(***************************************************************************)
(* A model of the mailbox subsystem of hyperactor (hyperactor/src/         *)
(* mailbox.rs): the per-actor Mailbox with its ports map, port handles and *)
(* receivers, and the routing senders built on top of it (MailboxMuxer,    *)
(* MailboxRouter, WeakMailboxRouter, DialMailboxRouter).                   *)
(***************************************************************************)
EXTENDS Integers, Sequences, FiniteSets, TLC

(***************************************************************************)
(* Bounds of the model.                                                    *)
(***************************************************************************)
\* ports allocated per mailbox
MaxPorts == 2
\* ports opened on a mailbox whose channels are then sent to and received from
MaxOpen == 1
\* messages accepted by the channels of the model over their life
MaxSends == 2
\* entries of a routing table / address book
MaxBinds == 2
\* dial calls per address
MaxDials == 2
\* calls of try_set_error on one envelope before it is posted
MaxErrors == 2

(***************************************************************************)
(* Program constants.                                                      *)
(***************************************************************************)
USER_PORT_OFFSET == 1024

\* config::SPLIT_MAX_BUFFER_SIZE as configured
SPLIT_MAX_BUFFER_SIZE == 2
\* Undeliverable<MessageEnvelope>::port(), the handler port of the return port
UndeliverablePort == 1
\* A::State::default() of the max accumulator of the tests
AccumDefault == 0

(***************************************************************************)
(* Identifiers.  An ActorId is <<world, rank, name, pid>>; a PortId is     *)
(* <<actor id, port index>>.                                               *)
(***************************************************************************)
Worlds == {1}
Ranks == {0, 1}
Names == {1, 2}
Pids == {0}
ActorIds == Worlds \X Ranks \X Names \X Pids

\* the mailboxes of the model, named by their actor ids
MA == <<1, 0, 1, 0>>
MB == <<1, 1, 1, 0>>
Mailboxes == {MA, MB}

\* port indices: the handler ports and the ephemeral ports
HandlerPorts == {UndeliverablePort}
EphemeralPorts == USER_PORT_OFFSET .. (USER_PORT_OFFSET + MaxOpen)
PortIndices == HandlerPorts \cup EphemeralPorts

\* message types and payloads (Serialized carries a type name and the bytes)
MsgTypes == {"u64", "undeliverable"}
Vals == {1, 2}
Payloads == [typ : MsgTypes, val : Vals]
Serialize(ty, v) == [typ |-> ty, val |-> v]

\* the return handles a caller can supply
ReturnHandles == {"caller", "monitored"}

NoError == [kind |-> "None", why |-> ""]
DeliveryError(k, w) == [kind |-> k, why |-> w]

NoPort == <<>>
NoEnv == [sender |-> <<>>, dest |-> <<>>, data |-> <<>>, error |-> NoError, headers |-> ""]

VARIABLES
  next_port,    \* State.next_port of each mailbox
  ports,        \* State.ports of all mailboxes: PortId -> bound sender
  opened,       \* the handles and channels made by open_*: PortId -> record
  allocs,       \* history: the indices returned by allocate_port, per mailbox
  returned,     \* what each return handle received in the last operation
  forwarded,    \* the envelopes handed to a forwarder in the last operation
  last,         \* the last operation and its result
  mux,          \* MailboxMuxer.mailboxes: ActorId -> sender
  entries,      \* MailboxRouter.entries: Reference -> sender
  strong,       \* strong handles to the router's table still alive
  address_book, \* DialMailboxRouter.address_book: Reference -> ChannelAddr
  sender_cache, \* DialMailboxRouter.sender_cache: ChannelAddr -> client
  client_buf,   \* the buffer of every MailboxClient made, in order of making
  dials,        \* history: dial calls per address since its last unbinding
  buf_closed,   \* the clients whose Buffer task has ended: its queue is closed
  wire,         \* the channel transport of the served client: accepted, not received
  rx_end,       \* "open" | "Closed" | "Error": what the served rx reports next
  server,       \* the task and the handle of MailboxServer::serve
  posted,       \* history: the envelopes posted to the served client, in order
  tasks,        \* the calls in progress of the tasks that run concurrently
  buffer        \* a Buffer on its own: its queue, its counters, its task

mboxVars == <<next_port, ports, opened, allocs>>
routeVars == <<mux, entries, strong>>
concVars == <<tasks, buffer>>
linkVars == <<buf_closed, wire, rx_end, server, posted, concVars>>
dialVars == <<address_book, sender_cache, client_buf, dials, linkVars>>
vars == <<next_port, ports, opened, allocs, returned, forwarded, last,
          mux, entries, strong, address_book, sender_cache, client_buf, dials,
          buf_closed, wire, rx_end, server, posted, tasks, buffer>>

(***************************************************************************)
(* Partial functions.                                                      *)
(***************************************************************************)
Empty == [x \in {} |-> 0]
Put(f, k, v) == [x \in (DOMAIN f) \cup {k} |-> IF x = k THEN v ELSE f[x]]
Remove(f, k) == [x \in (DOMAIN f) \ {k} |-> f[x]]
Last(s) == s[Len(s)]

(***************************************************************************)
(* MessageEnvelope.                                                        *)
(***************************************************************************)
Envelope(s, d, data, h) ==
  [sender |-> s, dest |-> d, data |-> data, error |-> NoError, headers |-> h]

\* MessageEnvelope::try_set_error: the first error wins
try_set_error_never(env, err) == env
try_set_error_last(env, err) == [env EXCEPT !.error = err]
try_set_error(env, err) ==
  IF env.error = NoError THEN [env EXCEPT !.error = err] ELSE env

\* undeliverable::return_undeliverable: the envelope is sent to the port of
\* the return handle
return_undeliverable(rh, env, st) ==
  [st EXCEPT !.returned[rh] = Append(@, env)]

\* MessageEnvelope::undeliverable
undeliverable(env, err, rh, st) ==
  return_undeliverable(rh, try_set_error(env, err), st)

(***************************************************************************)
(* Channels and port senders.  opened[p] describes the handle whose        *)
(* allocated port id is p and, for a handle made by open_*, the channel    *)
(* behind it:                                                              *)
(*   kind   "port" | "accum" | "once" | "enqueue" | "alias" | "split"      *)
(*   ty     the message type M of the handle                               *)
(*   chan   the port id of the channel the handle's sender feeds           *)
(*   bound  PortHandle.bound is set (a once handle: consumed by bind)      *)
(*   rx     "alive" | "dropped" | "none": the receiver                     *)
(*   queue  the messages in the channel                                    *)
(*   once   "na" | "handle" | "port" | "taken": where the oneshot sender is*)
(*   state  the accumulator state                                          *)
(*   tx     "alive" | "dropped": the PortHandle and its clones             *)
(*   sent   history: every message (accumulator: update) accepted while    *)
(*          the receiver lives                                             *)
(*   got    history: every message handed out by the receiver              *)
(***************************************************************************)
Chan(k, ty, c, r, o) ==
  [kind |-> k, ty |-> ty, chan |-> c, bound |-> FALSE, rx |-> r,
   queue |-> <<>>, once |-> o, state |-> AccumDefault, tx |-> "alive",
   sent |-> <<>>, got |-> <<>>]

\* mpsc::UnboundedSender::send: fails when the receiver is gone
MpscSendMut(o, c, v) ==
  [o EXCEPT ![c].queue = <<v>> \o @, ![c].sent = Append(@, v)]
MpscSend(o, c, v) ==
  [o EXCEPT ![c].queue = Append(@, v), ![c].sent = Append(@, v)]

\* Accumulator::accumulate of accum::max
accumulate(state, update) == IF update > state THEN update ELSE state

\* the enqueue closure of open_accum_port: fold under the lock, then queue
\* the new state (a failed queueing is ignored)
AccumEnqueue(o, c, update) ==
  LET s == accumulate(o[c].state, update)
      o1 == [o EXCEPT ![c].state = s]
  IN IF o[c].rx = "alive"
     THEN [o1 EXCEPT ![c].queue = Append(@, s), ![c].sent = Append(@, update)]
     ELSE o1

\* UnboundedPortSender::send on the channel c; [ok, opened]
UnboundedPortSender_send(o, c, v) ==
  CASE o[c].kind = "port" ->
         IF o[c].rx = "alive" THEN [ok |-> TRUE, opened |-> MpscSend(o, c, v)]
         ELSE [ok |-> FALSE, opened |-> o]
    [] o[c].kind = "accum" -> [ok |-> TRUE, opened |-> AccumEnqueue(o, c, v)]
    [] OTHER -> [ok |-> TRUE, opened |-> MpscSend(o, c, v)]

\* OnceSender::send_once on the channel c; [res, opened]
send_once_still_valid(o, c, v) ==
  IF o[c].once = "taken" THEN [res |-> "Err", err |-> "Closed", opened |-> o]
  ELSE [res |-> "OkTrue", err |-> "",
        opened |-> MpscSend([o EXCEPT ![c].once = "taken"], c, v)]
send_once_again(o, c, v) ==
  IF o[c].rx = "alive" THEN [res |-> "OkTrue", err |-> "", opened |-> MpscSend(o, c, v)]
  ELSE [res |-> "Err", err |-> "Closed", opened |-> o]
send_once(o, c, v) ==
  IF o[c].once = "taken" THEN [res |-> "Err", err |-> "Closed", opened |-> o]
  ELSE LET o1 == [o EXCEPT ![c].once = "taken"]
       IN IF o[c].rx = "alive"
          THEN [res |-> "OkFalse", err |-> "", opened |-> MpscSend(o1, c, v)]
          ELSE [res |-> "Err", err |-> "Closed", opened |-> o1]

\* a bound sender: an entry of State.ports
Sender(k, ty, c) == [kind |-> k, ty |-> ty, chan |-> c]


(***************************************************************************)
(* Mailbox::post.  The operators below transform the record                *)
(*   st = [ports, opened, returned, forwarded]                             *)
(* so that a split port's sender can post again on the same mailbox.       *)
(***************************************************************************)
EmptyAttrs == ""
Headers == {"h1"}
Senders == {MB}

NoReturns == [rh \in ReturnHandles |-> <<>>]
St == [ports |-> ports, opened |-> opened, returned |-> NoReturns,
       forwarded |-> <<>>]

\* an operation that returns and forwards nothing
Quiet == returned' = NoReturns /\ forwarded' = <<>>

RECURSIVE MailboxPost(_, _, _, _)

\* UnboundedSender::send_serialized
send_serialized_lost(s, data, st) == [res |-> "OkTrue", err |-> "", st |-> st]
UnboundedSender_send_serialized(s, data, st) ==
  IF data.typ # s.ty
  THEN [res |-> "Err", err |-> "Deserialize", st |-> st]
  ELSE LET r == UnboundedPortSender_send(st.opened, s.chan, data.val)
       IN IF r.ok
          THEN [res |-> "OkTrue", err |-> "", st |-> [st EXCEPT !.opened = r.opened]]
          ELSE [res |-> "Err", err |-> "Other", st |-> st]

\* OnceSender::send_serialized
OnceSender_send_serialized_removes(s, data, st) ==
  IF data.typ # s.ty
  THEN [res |-> "OkFalse", err |-> "", st |-> st]
  ELSE LET r == send_once(st.opened, s.chan, data.val)
       IN [res |-> "OkFalse", err |-> "", st |-> [st EXCEPT !.opened = r.opened]]
OnceSender_send_serialized(s, data, st) ==
  IF data.typ # s.ty
  THEN [res |-> "Err", err |-> "Deserialize", st |-> st]
  ELSE LET r == send_once(st.opened, s.chan, data.val)
       IN [res |-> r.res, err |-> r.err, st |-> [st EXCEPT !.opened = r.opened]]

\* UntypedUnboundedSender::send_serialized with the enqueue closure that
\* CanSplitPort::split makes when there is no reducer: post the update to the
\* port the split was made from, with the monitored return handle
UntypedUnboundedSender_send_serialized(m, s, data, st) ==
  [res |-> "OkTrue", err |-> "",
   st |-> MailboxPost(m, Envelope(m, s.chan, data, EmptyAttrs), "monitored", st)]

\* SplitPortBuffer::push: the items to flush, once the buffer holds limit of
\* them
push(buf, limit) == IF Len(buf) >= limit THEN buf ELSE <<>>

\* CommReducer::reduce_updates of accum::sum::<u64>: the sum of the updates,
\* or an error when one of them is not a u64
RECURSIVE Sum(_)
Sum(us) == IF us = <<>> THEN 0 ELSE Head(us).val + Sum(Tail(us))
reduce_updates(us) ==
  IF \A i \in 1..Len(us) : us[i].typ = "u64"
  THEN [ok |-> TRUE, data |-> Serialize("u64", Sum(us))]
  ELSE [ok |-> FALSE, data |-> Last(us)]

\* UntypedUnboundedSender::send_serialized with the enqueue closure that
\* CanSplitPort::split makes for a reducer; s.chan is the split port, whose
\* record holds the buffer (queue), the port split from (chan), the buffer
\* size configured (state) and the history of the updates pushed (got)
ReducingSender_send_serialized(m, s, data, st) ==
  LET p == s.chan
      buf == Append(st.opened[p].queue, data)
      buffered == push(buf, st.opened[p].state)
      st1 == [st EXCEPT !.opened[p].got = Append(@, data),
                        !.opened[p].queue = IF buffered = <<>> THEN buf ELSE <<>>]
  IN IF buffered = <<>> THEN [res |-> "OkTrue", err |-> "", st |-> st1]
     ELSE IF reduce_updates(buffered).ok
     THEN [res |-> "OkTrue", err |-> "",
           st |-> MailboxPost(m, Envelope(m, st.opened[p].chan,
                                          reduce_updates(buffered).data, EmptyAttrs),
                              "monitored", st1)]
     ELSE [res |-> "Err", err |-> "Reduce", st |-> st1]

send_serialized(m, s, data, st) ==
  CASE s.kind = "unbounded" -> UnboundedSender_send_serialized(s, data, st)
    [] s.kind = "once" -> OnceSender_send_serialized(s, data, st)
    [] s.kind = "reducing" -> ReducingSender_send_serialized(m, s, data, st)
    [] OTHER -> UntypedUnboundedSender_send_serialized(m, s, data, st)

\* the forwarder of a mailbox: an external sender, which keeps what it is handed
forwarder_post(m, env, rh, st) ==
  [st EXCEPT !.forwarded = Append(@, [mbox |-> m, env |-> env, rh |-> rh])]

\* <Mailbox as MailboxSender>::post
MailboxPostByIndex(m, env, rh, st) ==
  LET port == <<m, env.dest[2]>>
  IN IF port \notin DOMAIN st.ports
     THEN undeliverable(env, DeliveryError("Unroutable", "port not bound in mailbox"), rh, st)
     ELSE LET r == send_serialized(m, st.ports[port], env.data, st)
          IN CASE r.res = "OkFalse" -> [r.st EXCEPT !.ports = Remove(@, port)]
               [] r.res = "OkTrue" -> r.st
               [] OTHER -> undeliverable(env, DeliveryError("Mailbox", r.err), rh, r.st)
MailboxPost(m, env, rh, st) ==
  IF env.dest[1] # m THEN forwarder_post(m, env, rh, st)
  ELSE IF env.dest \notin DOMAIN st.ports
  THEN undeliverable(env, DeliveryError("Unroutable", "port not bound in mailbox"), rh, st)
  ELSE LET r == send_serialized(m, st.ports[env.dest], env.data, st)
       IN CASE r.res = "OkFalse" -> [r.st EXCEPT !.ports = Remove(@, env.dest)]
            [] r.res = "OkTrue" -> r.st
            [] OTHER -> undeliverable(env, DeliveryError("Mailbox", r.err), rh, r.st)

\* the bound of the model on the unbounded buffers: the messages accepted by
\* all channels together
RECURSIVE SumSent(_, _)
SumSent(o, cs) ==
  IF cs = {} THEN 0
  ELSE LET c == CHOOSE x \in cs : TRUE
       IN Len(o[c].sent) + SumSent(o, cs \ {c})

Bounded(st) == SumSent(st.opened, DOMAIN st.opened) <= MaxSends

SetSt(st) ==
  /\ Bounded(st)
  /\ ports' = st.ports
  /\ opened' = st.opened
  /\ returned' = st.returned
  /\ forwarded' = st.forwarded

(***************************************************************************)
(* The record of the last operation.                                       *)
(***************************************************************************)
Did(op, p, res, out) ==
  [op |-> op, pid |-> p, res |-> res, out |-> out, env |-> NoEnv, rh |-> ""]
DidPost(via, env, rh) ==
  [op |-> "post", pid |-> env.dest, res |-> via, out |-> <<>>, env |-> env, rh |-> rh]

(***************************************************************************)
(* Port allocation.                                                        *)
(***************************************************************************)
\* AtomicU64::fetch_add(1): the new value of the counter (it wraps at 2^64,
\* which no run of the model comes near)
fetch_add_stuck(n) == n
fetch_add(n) == n + 1

\* State::allocate_port: returns the old value of next_port
Allocate(m) ==
  /\ next_port[m] < USER_PORT_OFFSET + MaxPorts
  /\ next_port' = [next_port EXCEPT ![m] = fetch_add(@)]
  /\ allocs' = [allocs EXCEPT ![m] = Append(@, next_port[m])]

Fresh(m) == <<m, next_port[m]>>

(***************************************************************************)
(* Mailbox operations.                                                     *)
(***************************************************************************)
\* Mailbox::open_port::<M>
OpenPortBound(m, ty) ==
  /\ Allocate(m)
  /\ opened' = Put(opened, Fresh(m), Chan("port", ty, Fresh(m), "alive", "na"))
  /\ ports' = Put(ports, Fresh(m), Sender("unbounded", ty, Fresh(m)))
  /\ last' = Did("open_port", Fresh(m), "Ok", <<>>)
  /\ Quiet
  /\ UNCHANGED <<routeVars, dialVars>>
OpenPort(m, ty) ==
  /\ Allocate(m)
  /\ opened' = Put(opened, Fresh(m), Chan("port", ty, Fresh(m), "alive", "na"))
  /\ last' = Did("open_port", Fresh(m), "Ok", <<>>)
  /\ Quiet
  /\ UNCHANGED <<ports, routeVars, dialVars>>

\* Mailbox::open_accum_port(accum::max())
OpenAccumPort(m) ==
  /\ Allocate(m)
  /\ opened' = Put(opened, Fresh(m), Chan("accum", "u64", Fresh(m), "alive", "na"))
  /\ last' = Did("open_accum_port", Fresh(m), "Ok", <<>>)
  /\ Quiet
  /\ UNCHANGED <<ports, routeVars, dialVars>>

\* Mailbox::open_enqueue_port: a handle without a receiver
OpenEnqueuePort(m) ==
  /\ Allocate(m)
  /\ opened' = Put(opened, Fresh(m), Chan("enqueue", "u64", Fresh(m), "none", "na"))
  /\ last' = Did("open_enqueue_port", Fresh(m), "Ok", <<>>)
  /\ Quiet
  /\ UNCHANGED <<ports, routeVars, dialVars>>

\* Mailbox::open_once_port
OpenOncePort(m) ==
  /\ Allocate(m)
  /\ opened' = Put(opened, Fresh(m), Chan("once", "u64", Fresh(m), "alive", "handle"))
  /\ last' = Did("open_once_port", Fresh(m), "Ok", <<>>)
  /\ Quiet
  /\ UNCHANGED <<ports, routeVars, dialVars>>

\* Mailbox::lookup_sender::<Undeliverable<MessageEnvelope>>
lookup_sender(m) ==
  LET p == <<m, UndeliverablePort>>
  IN IF p \in DOMAIN ports /\ ports[p].kind = "unbounded" /\ ports[p].ty = "undeliverable"
     THEN {ports[p].chan} ELSE {}

\* Mailbox::bound_return_handle: a handle with a fresh port index on the
\* sender bound at the undeliverable port; None when that port is not bound
BoundReturnHandle(m) ==
  IF lookup_sender(m) = {}
  THEN /\ last' = Did("bound_return_handle", NoPort, "None", <<>>)
       /\ Quiet
       /\ UNCHANGED <<mboxVars, routeVars, dialVars>>
  ELSE /\ Allocate(m)
       /\ opened' = Put(opened, Fresh(m),
                        Chan("alias", "undeliverable",
                             CHOOSE c \in lookup_sender(m) : TRUE, "none", "na"))
       /\ last' = Did("bound_return_handle", Fresh(m), "Some", <<>>)
       /\ Quiet
  /\ UNCHANGED <<ports, routeVars, dialVars>>

\* Mailbox::bind_untyped: an occupied entry is left as it is
bind_untyped(p, s) == IF p \in DOMAIN ports THEN ports ELSE Put(ports, p, s)

\* CanSplitPort::split without a reducer
Split(m, target) ==
  /\ Allocate(m)
  /\ opened' = Put(opened, Fresh(m), Chan("split", "", target, "none", "na"))
  /\ ports' = bind_untyped(Fresh(m), Sender("untyped", "", target))
  /\ last' = Did("split", Fresh(m), "Ok", <<>>)
  /\ Quiet
  /\ UNCHANGED <<routeVars, dialVars>>

\* CanSplitPort::split with the reducer of accum::sum::<u64>, under the
\* configured buffer size limit
SplitReduce(m, target, limit) ==
  /\ Allocate(m)
  /\ opened' = Put(opened, Fresh(m),
                   [Chan("reduce", "u64", target, "none", "na") EXCEPT !.state = limit])
  /\ ports' = bind_untyped(Fresh(m), Sender("reducing", "u64", Fresh(m)))
  /\ last' = Did("split", Fresh(m), "Ok", <<>>)
  /\ Quiet
  /\ UNCHANGED <<routeVars, dialVars>>

PortHandleKinds == {"port", "accum", "enqueue", "alias"}
PortHandles == {h \in DOMAIN opened :
                  opened[h].kind \in PortHandleKinds /\ opened[h].tx = "alive"}
OnceHandles == {h \in DOMAIN opened : opened[h].kind = "once" /\ opened[h].once = "handle"}

\* Mailbox::bind: a vacant entry gets the handle's sender, an occupied one stays
Mailbox_bind_replaces(h) ==
  Put(ports, h, Sender("unbounded", opened[h].ty, opened[h].chan))
Mailbox_bind(h) ==
  IF h \in DOMAIN ports THEN ports
  ELSE Put(ports, h, Sender("unbounded", opened[h].ty, opened[h].chan))

\* PortHandle::bind: bound.get_or_init(|| mailbox.bind(self))
Bind(h) ==
  /\ h \in PortHandles
  /\ ports' = IF opened[h].bound THEN ports ELSE Mailbox_bind(h)
  /\ opened' = [opened EXCEPT ![h].bound = TRUE]
  /\ last' = Did("bind", h, "Ok", <<>>)
  /\ Quiet
  /\ UNCHANGED <<next_port, allocs, routeVars, dialVars>>

\* PortHandle::bind_to / Mailbox::bind_to: panics on an occupied entry
BindTo(h, k) ==
  /\ h \in PortHandles
  /\ IF <<h[1], k>> \in DOMAIN ports
     THEN /\ last' = Did("bind_to", <<h[1], k>>, "panic", <<>>)
          /\ UNCHANGED ports
     ELSE /\ ports' = Put(ports, <<h[1], k>>,
                          Sender("unbounded", opened[h].ty, opened[h].chan))
          /\ last' = Did("bind_to", <<h[1], k>>, "Ok", <<>>)
  /\ Quiet
  /\ UNCHANGED <<next_port, allocs, opened, routeVars, dialVars>>

\* OncePortHandle::bind / Mailbox::bind_once: consumes the handle
BindOnce(h) ==
  /\ h \in OnceHandles
  /\ ports' = IF h \in DOMAIN ports THEN ports
              ELSE Put(ports, h, Sender("once", opened[h].ty, h))
  /\ opened' = [opened EXCEPT ![h].bound = TRUE,
                              ![h].once = IF h \in DOMAIN ports THEN "taken" ELSE "port"]
  /\ last' = Did("bind_once", h, "Ok", <<>>)
  /\ Quiet
  /\ UNCHANGED <<next_port, allocs, routeVars, dialVars>>

\* PortHandle::send
Send(h, v) ==
  /\ h \in PortHandles
  /\ LET r == UnboundedPortSender_send(opened, opened[h].chan, v)
     IN /\ SetSt([St EXCEPT !.opened = r.opened])
        /\ last' = Did("send", h, IF r.ok THEN "Ok" ELSE "Err", <<v>>)
  /\ UNCHANGED <<next_port, allocs, routeVars, dialVars>>

\* OncePortHandle::send: consumes the handle
SendOnce(h, v) ==
  /\ h \in OnceHandles
  /\ LET r == send_once(opened, h, v)
     IN /\ SetSt([St EXCEPT !.opened = r.opened])
        /\ last' = Did("send_once", h, r.res, <<v>>)
  /\ UNCHANGED <<next_port, allocs, routeVars, dialVars>>

\* <Mailbox as MailboxSender>::post called by a user of the mailbox
Post(m, env, rh) ==
  /\ SetSt(MailboxPost(m, env, rh, St))
  /\ last' = DidPost("mailbox", env, rh)
  /\ UNCHANGED <<next_port, allocs, routeVars, dialVars>>


(***************************************************************************)
(* Receivers.                                                              *)
(***************************************************************************)
Coalesce(c) == opened[c].kind = "accum"
Receivers == {c \in DOMAIN opened :
                opened[c].kind \in {"port", "accum"} /\ opened[c].rx = "alive"}
OnceReceivers == {c \in DOMAIN opened :
                    opened[c].kind = "once" /\ opened[c].rx = "alive"}

\* PortReceiver::drain applied to the queue q: with coalesce only the last
\* message is kept
DrainNoCoalesce(coalesce, q) == q
drain(coalesce, q) ==
  IF coalesce /\ q # <<>> THEN <<Last(q)>> ELSE q

\* what recv and try_recv hand out of a non-empty queue q, and what they
\* leave: the head, or with coalesce the last message
Next1(coalesce, q) ==
  LET rest == drain(coalesce, Tail(q))
  IN IF coalesce
     THEN [msg |-> IF rest # <<>> THEN Last(rest) ELSE Head(q), left |-> <<>>]
     ELSE [msg |-> Head(q), left |-> Tail(q)]

\* the senders of the channel c: the handle and its clones, and the clone
\* that every entry of a ports map bound from the handle holds
SendersAliveAlways(o, pm, c) == TRUE
HandleAlive(o, pm, c) == o[c].tx = "alive"
SendersAlive(o, pm, c) ==
  \/ o[c].tx = "alive"
  \/ \E p \in DOMAIN pm : pm[p].kind = "unbounded" /\ pm[p].chan = c

\* Drop for PortHandle, of the handle and all its clones
DropHandle(h) ==
  /\ h \in PortHandles
  /\ opened' = [opened EXCEPT ![h].tx = "dropped"]
  /\ last' = Did("drop_handle", h, "Ok", <<>>)
  /\ Quiet
  /\ UNCHANGED <<next_port, ports, allocs, routeVars, dialVars>>

\* PortReceiver::recv: waits while the queue is empty and a sender is alive,
\* Closed when the queue is empty and no sender is left
Recv(c) ==
  /\ c \in Receivers
  /\ opened[c].queue # <<>> \/ ~SendersAlive(opened, ports, c)
  /\ IF opened[c].queue = <<>>
     THEN /\ last' = Did("recv", c, "Closed", <<>>)
          /\ UNCHANGED opened
     ELSE LET n == Next1(Coalesce(c), opened[c].queue)
          IN /\ opened' = [opened EXCEPT ![c].queue = n.left, ![c].got = Append(@, n.msg)]
             /\ last' = Did("recv", c, "Ok", <<n.msg>>)
  /\ Quiet
  /\ UNCHANGED <<next_port, ports, allocs, routeVars, dialVars>>

\* PortReceiver::try_recv: None on an empty queue with a sender alive, Closed
\* on an empty queue without
TryRecv(c) ==
  /\ c \in Receivers
  /\ IF opened[c].queue = <<>>
     THEN /\ last' = Did("try_recv", c,
                         IF SendersAlive(opened, ports, c) THEN "None" ELSE "Closed", <<>>)
          /\ UNCHANGED opened
     ELSE LET n == Next1(Coalesce(c), opened[c].queue)
          IN /\ opened' = [opened EXCEPT ![c].queue = n.left, ![c].got = Append(@, n.msg)]
             /\ last' = Did("try_recv", c, "Ok", <<n.msg>>)
  /\ Quiet
  /\ UNCHANGED <<next_port, ports, allocs, routeVars, dialVars>>

\* PortReceiver::drain
Drain(c) ==
  /\ c \in Receivers
  /\ LET d == drain(Coalesce(c), opened[c].queue)
     IN /\ opened' = [opened EXCEPT ![c].queue = <<>>, ![c].got = @ \o d]
        /\ last' = Did("drain", c, "Ok", d)
  /\ Quiet
  /\ UNCHANGED <<next_port, ports, allocs, routeVars, dialVars>>

\* Drop for PortReceiver: the port leaves the ports map, the channel closes
DropRemove(pm, c) == Remove(pm, c)

DropReceiver(c) ==
  /\ c \in Receivers
  /\ ports' = DropRemove(ports, c)
  /\ opened' = [opened EXCEPT ![c].rx = "dropped", ![c].queue = <<>>,
                              ![c].sent = <<>>, ![c].got = <<>>]
  /\ last' = Did("drop", c, "Ok", <<>>)
  /\ Quiet
  /\ UNCHANGED <<next_port, allocs, routeVars, dialVars>>

\* OncePortReceiver::recv: consumes the receiver, which is dropped at the end
OnceRecv(c) ==
  /\ c \in OnceReceivers
  /\ opened[c].queue # <<>>
  /\ ports' = DropRemove(ports, c)
  /\ opened' = [opened EXCEPT ![c].rx = "dropped", ![c].queue = <<>>,
                              ![c].got = Append(@, Head(opened[c].queue))]
  /\ last' = Did("once_recv", c, "Ok", <<Head(opened[c].queue)>>)
  /\ Quiet
  /\ UNCHANGED <<next_port, allocs, routeVars, dialVars>>

\* Drop for OncePortReceiver
DropOnceReceiver(c) ==
  /\ c \in OnceReceivers
  /\ ports' = DropRemove(ports, c)
  /\ opened' = [opened EXCEPT ![c].rx = "dropped", ![c].queue = <<>>]
  /\ last' = Did("drop_once", c, "Ok", <<>>)
  /\ Quiet
  /\ UNCHANGED <<next_port, allocs, routeVars, dialVars>>

(***************************************************************************)
(* References.  A Reference is a world <<w>>, a proc <<w, r>> or an actor  *)
(* <<w, r, n, p>>; they are ordered field by field, a missing field before *)
(* any present one.                                                        *)
(***************************************************************************)
References == {<<w>> : w \in Worlds} \cup (Worlds \X Ranks) \cup ActorIds

\* Ord for Reference
RefLess(a, b) ==
  \E i \in 1..4 :
    /\ \A j \in 1..(i - 1) : j <= Len(a) /\ j <= Len(b) /\ a[j] = b[j]
    /\ i <= Len(b)
    /\ (i <= Len(a) => a[i] < b[i])
RefLeq(a, b) == a = b \/ RefLess(a, b)

\* Reference::is_prefix_of
is_prefix_of(k, d) == Len(k) <= Len(d) /\ SubSeq(d, 1, Len(k)) = k

\* BTreeMap::lower_bound(Excluded(x)).prev(): the entry with the greatest
\* key that is not greater than x, as a set of at most one key
PrevIncluded(keys, x) ==
  {k \in keys : RefLeq(k, x) /\ \A j \in keys : RefLeq(j, x) => RefLeq(j, k)}
PrevExcluded(keys, x) ==
  {k \in keys : RefLess(k, x) /\ \A j \in keys : RefLess(j, x) => RefLeq(j, k)}
lower_bound_prev(keys, x) == PrevIncluded(keys, x)

\* the lookup of MailboxRouter::post and DialMailboxRouter::lookup_addr in
\* the sorted map tbl: the value at the key found, when that key is a prefix
lookup(tbl, actor) ==
  {tbl[k] : k \in {j \in lower_bound_prev(DOMAIN tbl, actor) : is_prefix_of(j, actor)}}

(***************************************************************************)
(* MailboxMuxer, MailboxRouter, WeakMailboxRouter.  The senders bound in   *)
(* them are mailboxes.                                                     *)
(***************************************************************************)
\* MailboxMuxer::post
MuxerPostAny(env, rh, st) ==
  IF mux # Empty
  THEN MailboxPost(mux[CHOOSE a \in DOMAIN mux : TRUE], env, rh, st)
  ELSE undeliverable(env, DeliveryError("Unroutable", "no mailbox for actor registered in muxer"),
                     rh, st)
MuxerPost(env, rh, st) ==
  IF env.dest[1] \in DOMAIN mux
  THEN MailboxPost(mux[env.dest[1]], env, rh, st)
  ELSE undeliverable(env, DeliveryError("Unroutable", "no mailbox for actor registered in muxer"),
                     rh, st)

\* MailboxRouter::post
RouterPost(env, rh, st) ==
  LET sender == lookup(entries, env.dest[1])
  IN IF sender = {}
     THEN undeliverable(env,
            DeliveryError("Unroutable", "no destination found for actor in routing table"),
            rh, st)
     ELSE MailboxPost(CHOOSE m \in sender : TRUE, env, rh, st)

\* WeakMailboxRouter::post
WeakRouterPostDead(env, rh, st) ==
  undeliverable(env, DeliveryError("BrokenLink", "failed to upgrade WeakMailboxRouter"),
                rh, st)
WeakRouterPost(env, rh, st) ==
  IF strong > 0 THEN RouterPost(env, rh, st)
  ELSE undeliverable(env, DeliveryError("BrokenLink", "failed to upgrade WeakMailboxRouter"),
                     rh, st)

\* UnroutableMailboxSender::post
UnroutablePostLost(env, rh, st) == st
UnroutablePost(env, rh, st) ==
  undeliverable(env, DeliveryError("Unroutable", "destination not found in routing table"),
                rh, st)

\* MailboxMuxer::bind: false when the actor is already bound; the operation
\* records the sender it was given
MuxBindReplaces(a, m) ==
  /\ mux' = Put(mux, a, m)
  /\ last' = Did("mux_bind", <<a>>, IF a \in DOMAIN mux THEN "false" ELSE "true", <<m>>)
  /\ Quiet
  /\ UNCHANGED <<mboxVars, entries, strong, dialVars>>
MuxBind(a, m) ==
  /\ IF a \in DOMAIN mux
     THEN /\ UNCHANGED mux
          /\ last' = Did("mux_bind", <<a>>, "false", <<m>>)
     ELSE /\ mux' = Put(mux, a, m)
          /\ last' = Did("mux_bind", <<a>>, "true", <<m>>)
  /\ Quiet
  /\ UNCHANGED <<mboxVars, entries, strong, dialVars>>

\* MailboxMuxer::unbind
MuxUnbind(a) ==
  /\ mux' = Remove(mux, a)
  /\ last' = Did("mux_unbind", <<a>>, "Ok", <<>>)
  /\ Quiet
  /\ UNCHANGED <<mboxVars, entries, strong, dialVars>>

\* MailboxRouter::bind, through a strong handle
RouterBind(ref, m) ==
  /\ strong > 0
  /\ Cardinality(DOMAIN entries \cup {ref}) <= MaxBinds
  /\ entries' = Put(entries, ref, m)
  /\ last' = Did("router_bind", <<ref>>, "Ok", <<>>)
  /\ Quiet
  /\ UNCHANGED <<mboxVars, mux, strong, dialVars>>

\* MailboxRouter::clone: one more strong handle to the same table
RouterClone ==
  /\ strong > 0
  /\ strong < MaxBinds
  /\ strong' = strong + 1
  /\ last' = Did("router_clone", NoPort, "Ok", <<>>)
  /\ Quiet
  /\ UNCHANGED <<mboxVars, mux, entries, dialVars>>

\* a MailboxRouter handle is dropped; with the last one the table goes
RouterDrop ==
  /\ strong > 0
  /\ strong' = strong - 1
  /\ entries' = IF strong = 1 THEN Empty ELSE entries
  /\ last' = Did("router_drop", NoPort, "Ok", <<>>)
  /\ Quiet
  /\ UNCHANGED <<mboxVars, mux, dialVars>>

\* MailboxMuxer::post called by a user
PostMuxer(env, rh) ==
  /\ SetSt(MuxerPost(env, rh, St))
  /\ last' = DidPost("muxer", env, rh)
  /\ UNCHANGED <<next_port, allocs, routeVars, dialVars>>

\* MailboxRouter::post called by a user; the result names the sender chosen
PostRouter(env, rh) ==
  /\ strong > 0
  /\ SetSt(RouterPost(env, rh, St))
  /\ last' = [DidPost("router", env, rh) EXCEPT
                !.out = IF lookup(entries, env.dest[1]) = {} THEN <<>>
                        ELSE <<CHOOSE m \in lookup(entries, env.dest[1]) : TRUE>>]
  /\ UNCHANGED <<next_port, allocs, routeVars, dialVars>>

\* WeakMailboxRouter::post called by a user
PostWeak(env, rh) ==
  /\ SetSt(WeakRouterPost(env, rh, St))
  /\ last' = DidPost("weak", env, rh)
  /\ UNCHANGED <<next_port, allocs, routeVars, dialVars>>

(***************************************************************************)
(* DialMailboxRouter.  sender_cache maps an address to the MailboxClient   *)
(* dialed for it, named by its index in client_buf, the buffers of all     *)
(* clients ever made.  dials counts, per address, the calls of             *)
(* channel::dial and the clients made since a reference was last rebound   *)
(* from the address or unbound from it.                                    *)
(***************************************************************************)
Addrs == {"unix!@1", "unix!@2"}
NoDials == [a \in Addrs |-> [calls |-> 0, made |-> 0]]

\* DialMailboxRouter::lookup_addr
lookup_addr(actor) == lookup(address_book, actor)

\* the cache test of DialMailboxRouter::dial
NeverCached(addr) == FALSE
Cached(addr) == addr \in DOMAIN sender_cache

\* DialMailboxRouter::bind; the operation records the address w.insert returns
DialBindKeepsSender(ref, addr) ==
  /\ Cardinality(DOMAIN address_book \cup {ref}) <= MaxBinds
  /\ address_book' = Put(address_book, ref, addr)
  /\ last' = Did("dial_bind", <<ref>>, addr,
                 IF ref \in DOMAIN address_book THEN <<address_book[ref]>> ELSE <<>>)
  /\ Quiet
  /\ UNCHANGED <<mboxVars, routeVars, sender_cache, client_buf, dials, linkVars>>
DialBind(ref, addr) ==
  /\ Cardinality(DOMAIN address_book \cup {ref}) <= MaxBinds
  /\ address_book' = Put(address_book, ref, addr)
  /\ LET rebound == ref \in DOMAIN address_book /\ address_book[ref] # addr
     IN /\ sender_cache' = IF rebound THEN Remove(sender_cache, address_book[ref])
                           ELSE sender_cache
        /\ dials' = IF rebound THEN [dials EXCEPT ![address_book[ref]] = NoDials[addr]]
                    ELSE dials
  /\ last' = Did("dial_bind", <<ref>>, addr,
                 IF ref \in DOMAIN address_book THEN <<address_book[ref]>> ELSE <<>>)
  /\ Quiet
  /\ UNCHANGED <<mboxVars, routeVars, client_buf, linkVars>>

\* the entries DialMailboxRouter::unbind removes: from dest on in key order,
\* while dest is a prefix of the key
to_remove_exact(dest) == {dest} \cap DOMAIN address_book
to_remove(dest) ==
  LET from == {k \in DOMAIN address_book : RefLeq(dest, k)}
  IN {k \in from : \A j \in from : RefLeq(j, k) => is_prefix_of(dest, j)}

\* DialMailboxRouter::unbind
DialUnbind(dest) ==
  /\ LET gone == {address_book[k] : k \in to_remove(dest)}
     IN /\ address_book' = [k \in DOMAIN address_book \ to_remove(dest) |-> address_book[k]]
        /\ sender_cache' = [a \in DOMAIN sender_cache \ gone |-> sender_cache[a]]
        /\ dials' = [a \in Addrs |-> IF a \in gone THEN NoDials[a] ELSE dials[a]]
  /\ last' = Did("dial_unbind", <<dest>>, "Ok", <<>>)
  /\ Quiet
  /\ UNCHANGED <<mboxVars, routeVars, client_buf, linkVars>>

\* DialMailboxRouter::lookup_addr called by a user
LookupAddr(actor) ==
  /\ last' = Did("lookup_addr", <<actor>>,
                 IF lookup_addr(actor) = {} THEN "None"
                 ELSE CHOOSE a \in lookup_addr(actor) : TRUE, <<>>)
  /\ Quiet
  /\ UNCHANGED <<mboxVars, routeVars, dialVars>>

\* the bound of the model on the clients' unbounded buffers: the envelopes
\* buffered in all of them together
RECURSIVE Buffered(_)
Buffered(bufs) == IF bufs = <<>> THEN 0 ELSE Len(Head(bufs)) + Buffered(Tail(bufs))

\* Buffer::send: the queue takes the item unless the task that receives
\* from it has ended
BufferNeverCloses(id) == TRUE
BufferAccepts(id) == id \notin buf_closed

\* MailboxClient::post: the envelope goes into the client's buffer, or comes
\* back as a broken link when the buffer does not take it
ClientPostFront(id, env, rh) ==
  [client_buf EXCEPT ![id] = <<[env |-> env, rh |-> rh]>> \o @]
ClientPost(id, env, rh) ==
  IF BufferAccepts(id)
  THEN [client_buf EXCEPT ![id] = Append(@, [env |-> env, rh |-> rh])]
  ELSE client_buf
MailboxClient_post(id, env, rh, st) ==
  IF BufferAccepts(id) THEN st
  ELSE undeliverable(env, DeliveryError("BrokenLink", "failed to enqueue in MailboxClient"),
                     rh, st)

\* DialMailboxRouter::post, the arm for a dial that failed
dial_err_broken_link(env, rh, st) ==
  undeliverable(env, DeliveryError("BrokenLink", "cannot dial destination"), rh, st)
dial_err(env, rh, st) ==
  undeliverable(env, DeliveryError("Unroutable", "cannot dial destination"), rh, st)

\* DialMailboxRouter::post; dial_ok tells whether channel::dial succeeds when
\* it is called
DialPost(env, rh, dial_ok) ==
  /\ last' = DidPost("dial", env, rh)
  /\ UNCHANGED <<next_port, allocs, routeVars, address_book, linkVars>>
  /\ IF lookup_addr(env.dest[1]) = {}
     THEN /\ SetSt(UnroutablePost(env, rh, St))
          /\ UNCHANGED <<sender_cache, client_buf, dials>>
     ELSE LET addr == CHOOSE a \in lookup_addr(env.dest[1]) : TRUE
          IN IF Cached(addr)
             THEN /\ Buffered(client_buf) < MaxSends
                  /\ client_buf' = ClientPost(sender_cache[addr], env, rh)
                  /\ SetSt(MailboxClient_post(sender_cache[addr], env, rh, St))
                  /\ UNCHANGED <<sender_cache, dials>>
             ELSE /\ dials[addr].calls < MaxDials
                  /\ IF dial_ok
                     THEN /\ Len(client_buf) < MaxDials
                          /\ Buffered(client_buf) < MaxSends
                          /\ sender_cache' = Put(sender_cache, addr, Len(client_buf) + 1)
                          /\ client_buf' = Append(client_buf, <<[env |-> env, rh |-> rh]>>)
                          /\ dials' = [dials EXCEPT ![addr].calls = @ + 1, ![addr].made = @ + 1]
                          /\ SetSt(St)
                     ELSE /\ SetSt(dial_err(env, rh, St))
                          /\ dials' = [dials EXCEPT ![addr].calls = @ + 1]
                          /\ UNCHANGED <<sender_cache, client_buf>>

\* the task of a client's Buffer takes the next envelope and hands it to the
\* transport (tx.try_post); a failure to enqueue returns it as a broken link.
\* The transport of the served client is wire; that of a dialed client is
\* outside the model.
ClientProcess(id, tx_ok) ==
  /\ id \in 1..Len(client_buf)
  /\ id \notin buf_closed
  /\ client_buf[id] # <<>>
  /\ client_buf' = [client_buf EXCEPT ![id] = Tail(@)]
  /\ wire' = IF tx_ok /\ id = server.client
             THEN Append(wire, Head(client_buf[id])) ELSE wire
  /\ UNCHANGED <<buf_closed, rx_end, server, posted, concVars>>
  /\ SetSt(IF tx_ok THEN St
           ELSE undeliverable(Head(client_buf[id]).env,
                  DeliveryError("BrokenLink", "failed to enqueue in MailboxClient"),
                  Head(client_buf[id]).rh, St))
  /\ last' = [Did("client_process", NoPort, IF tx_ok THEN "Ok" ELSE "Err", <<>>)
                EXCEPT !.env = Head(client_buf[id]).env, !.rh = Head(client_buf[id]).rh]
  /\ UNCHANGED <<next_port, allocs, routeVars, address_book, sender_cache, dials>>

(***************************************************************************)
(* A mailbox client and the mailbox server at the other end of its channel *)
(* transport.  server describes the task spawned by MailboxServer::serve   *)
(* and its handle:                                                         *)
(*   pc        "none" | "top" | "select" | "done": where the task is: not  *)
(*             spawned, at the head of the loop, in select!, ended         *)
(*   result    "none" | "Ok" | "Err": what the task ended with             *)
(*   stopped   the value of the watch channel                              *)
(*   unseen    the value changed since stopped_rx last looked              *)
(*   detached  the local of that name                                      *)
(*   handle    "none" | "held" | "dropped": the MailboxServerHandle        *)
(*   client    the client whose tx feeds the served rx (0: none)           *)
(* The transport follows its contract: an envelope try_post accepted is    *)
(* received by rx in the order accepted, or reported failed through its    *)
(* ack channel; rx.recv reports Closed once the queue is drained and tx is *)
(* gone.  An rx may also report another channel error.                     *)
(***************************************************************************)
NoServer == [pc |-> "none", result |-> "none", stopped |-> FALSE, unseen |-> FALSE,
             detached |-> FALSE, handle |-> "none", client |-> 0]

\* the return handle the server is given
ServerReturnHandle == "monitored"

\* an operation that leaves the mailbox, the routers and the dialing alone
Idle == Quiet /\ UNCHANGED <<mboxVars, routeVars, address_book, sender_cache, dials>>

\* channel::local::new, MailboxServer::serve on the mailbox MA and
\* MailboxClient::new on the other end
Serve ==
  /\ server.pc = "none"
  /\ Len(client_buf) < MaxDials
  /\ server' = [NoServer EXCEPT !.pc = "top", !.handle = "held",
                                !.client = Len(client_buf) + 1]
  /\ client_buf' = Append(client_buf, <<>>)
  /\ last' = Did("serve", NoPort, "Ok", <<>>)
  /\ Idle
  /\ UNCHANGED <<buf_closed, wire, rx_end, posted, concVars>>

\* <MailboxClient as MailboxSender>::post on the served client
PostClient(env, rh) ==
  /\ server.client # 0
  /\ Len(posted) < MaxSends
  /\ client_buf' = ClientPost(server.client, env, rh)
  /\ SetSt(MailboxClient_post(server.client, env, rh, St))
  /\ posted' = Append(posted, env)
  /\ last' = DidPost("client", env, rh)
  /\ UNCHANGED <<next_port, allocs, routeVars, address_book, sender_cache, dials,
                 buf_closed, wire, rx_end, server, concVars>>

\* the task of a client's Buffer ends (the runtime shuts down): the receiving
\* end of the queue is dropped with what it holds
BufferEnds(id) ==
  /\ id \in 1..Len(client_buf)
  /\ id \notin buf_closed
  /\ buf_closed' = buf_closed \cup {id}
  /\ client_buf' = [client_buf EXCEPT ![id] = <<>>]
  /\ last' = Did("buffer_ends", NoPort, "Ok", <<>>)
  /\ Idle
  /\ UNCHANGED <<wire, rx_end, server, posted, concVars>>

\* the transport reports the i-th envelope it holds as failed through its
\* ack channel: the task MailboxClient::new spawned for the envelope sends
\* it to the return handle it was posted with
AckReturnTwice(rh, env, st) ==
  return_undeliverable(rh, env, return_undeliverable(rh, env, st))
AckReturn(rh, env, st) == return_undeliverable(rh, env, st)
AckFail(i) ==
  /\ i \in 1..Len(wire)
  /\ wire' = [j \in 1..(Len(wire) - 1) |-> IF j < i THEN wire[j] ELSE wire[j + 1]]
  /\ SetSt(AckReturn(wire[i].rh, wire[i].env, St))
  /\ last' = [Did("ack_fail", NoPort, "Ok", <<>>)
                EXCEPT !.env = wire[i].env, !.rh = wire[i].rh]
  /\ UNCHANGED <<next_port, allocs, routeVars, address_book, sender_cache, dials,
                 client_buf, buf_closed, rx_end, server, posted, concVars>>

\* the served rx comes to its end: tx is dropped (Closed), or the channel
\* fails with another error
RxEnd(how) ==
  /\ server.pc # "none"
  /\ rx_end = "open"
  /\ rx_end' = how
  /\ last' = Did("rx_end", NoPort, how, <<>>)
  /\ Idle
  /\ UNCHANGED <<client_buf, buf_closed, wire, server, posted, concVars>>

\* serve, the head of the loop: *stopped_rx.borrow_and_update()
ServeTopBlind ==
  /\ server.pc = "top"
  /\ server' = [server EXCEPT !.pc = "select", !.unseen = FALSE]
  /\ last' = Did("serve_top", NoPort, "Running", <<>>)
  /\ Idle
  /\ UNCHANGED <<client_buf, buf_closed, wire, rx_end, posted, concVars>>
ServeTop ==
  /\ server.pc = "top"
  /\ server' = IF server.stopped
               THEN [server EXCEPT !.pc = "done", !.result = "Ok", !.unseen = FALSE]
               ELSE [server EXCEPT !.pc = "select", !.unseen = FALSE]
  /\ last' = Did("serve_top", NoPort, IF server.stopped THEN "Ok" ELSE "Running", <<>>)
  /\ Idle
  /\ UNCHANGED <<client_buf, buf_closed, wire, rx_end, posted, concVars>>

\* what the served sender does with an envelope of the server
ServerDrops(m, env, rh, st) == st
ServerPost(m, env, rh, st) == MailboxPost(m, env, rh, st)

\* serve, the branch of select! on rx.recv(); ev is what recv reports
ServeRecv(ev) ==
  /\ server.pc = "select"
  /\ CASE ev = "envelope" ->
            /\ wire # <<>>
            /\ wire' = Tail(wire)
            /\ SetSt(ServerPost(MA, Head(wire).env, ServerReturnHandle, St))
            /\ server' = [server EXCEPT !.pc = "top"]
            /\ last' = [Did("serve_recv", Head(wire).env.dest, "Running", <<>>)
                          EXCEPT !.env = Head(wire).env, !.rh = ServerReturnHandle]
       [] ev = "Closed" ->
            /\ wire = <<>> /\ rx_end = "Closed"
            /\ server' = [server EXCEPT !.pc = "done", !.result = "Ok"]
            /\ last' = Did("serve_recv", NoPort, "Closed", <<>>)
            /\ Quiet /\ UNCHANGED <<ports, opened, wire>>
       [] OTHER ->
            /\ rx_end = "Error"
            /\ server' = [server EXCEPT !.pc = "done", !.result = "Err"]
            /\ last' = Did("serve_recv", NoPort, "Error", <<>>)
            /\ Quiet /\ UNCHANGED <<ports, opened, wire>>
  /\ UNCHANGED <<next_port, allocs, routeVars, address_book, sender_cache, dials,
                 client_buf, buf_closed, rx_end, posted, concVars>>

\* serve, the branch of select! on stopped_rx.changed(): ready when the value
\* changed since it was last looked at, or, with an error, when the handle
\* and its stopped_tx are gone
ServeChanged ==
  /\ server.pc = "select"
  /\ ~server.detached
  /\ server.unseen \/ server.handle = "dropped"
  /\ server' = [server EXCEPT !.pc = "top", !.unseen = FALSE,
                              !.detached = ~server.unseen]
  /\ last' = Did("serve_changed", NoPort, "Running", <<>>)
  /\ Idle
  /\ UNCHANGED <<client_buf, buf_closed, wire, rx_end, posted, concVars>>

\* MailboxServerHandle::stop: stopped_tx.send(true), which fails, and stop
\* panics, when the task and its stopped_rx are gone.  The operation records
\* whether the call is the first on the handle or a later one.  A caller that
\* panics unwinds and makes no further call on the handle.
Stop ==
  /\ server.handle = "held"
  /\ IF server.pc = "done"
     THEN /\ server' = [server EXCEPT !.handle = "dropped"]
          /\ last' = Did("stop", NoPort, "Panic", <<IF server.stopped THEN 2 ELSE 1>>)
     ELSE /\ server' = [server EXCEPT !.stopped = TRUE, !.unseen = TRUE]
          /\ last' = Did("stop", NoPort, "Ok", <<IF server.stopped THEN 2 ELSE 1>>)
  /\ Idle
  /\ UNCHANGED <<client_buf, buf_closed, wire, rx_end, posted, concVars>>

\* the MailboxServerHandle is dropped; the task goes on detached
DropServerHandle ==
  /\ server.handle = "held"
  /\ server' = [server EXCEPT !.handle = "dropped"]
  /\ last' = Did("drop_server_handle", NoPort, "Ok", <<>>)
  /\ Idle
  /\ UNCHANGED <<client_buf, buf_closed, wire, rx_end, posted, concVars>>

(***************************************************************************)
(* Concurrent callers.  tasks[t] is the call task t is in:                 *)
(*   pc    "idle", or the point of the call the task has reached           *)
(*   env   the envelope of a post in progress                              *)
(*   rh    its return handle                                               *)
(*   loc   the local the call holds at that point                          *)
(* A step of a call is what it does under one lock or in one atomic        *)
(* operation.                                                              *)
(***************************************************************************)
Tasks == {1, 2}
NoTask == [pc |-> "idle", env |-> NoEnv, rh |-> "", loc |-> <<>>]

\* a step of a task that touches neither the mailboxes nor the routers
Aside == Quiet /\ UNCHANGED <<mboxVars, routeVars>>

\* DialMailboxRouter::post, the call of lookup_addr under the read lock of
\* the address book; without an address the envelope goes to the default
\* sender
DialPostLookup(t, env, rh) ==
  /\ tasks[t].pc = "idle"
  /\ IF lookup_addr(env.dest[1]) = {}
     THEN /\ SetSt(UnroutablePost(env, rh, St))
          /\ UNCHANGED tasks
          /\ last' = [DidPost("dial", env, rh) EXCEPT !.out = <<"default">>]
     ELSE /\ tasks' = [tasks EXCEPT ![t] =
                         [pc |-> "dial", env |-> env, rh |-> rh,
                          loc |-> <<CHOOSE a \in lookup_addr(env.dest[1]) : TRUE>>]]
          /\ last' = Did("lookup_addr", env.dest, "Ok", <<t>>)
          /\ Quiet /\ UNCHANGED <<ports, opened>>
  /\ UNCHANGED <<next_port, allocs, routeVars, address_book, sender_cache, client_buf,
                 dials, buf_closed, wire, rx_end, server, posted, buffer>>

\* the entry of an address in sender_cache is held by no task: entry()
\* returns only when the lock on the entry is free
EntryAlwaysFree(addr) == TRUE
EntryFree(addr) ==
  \A u \in Tasks : ~(tasks[u].pc = "vacant" /\ tasks[u].loc[1] = addr)

\* DialMailboxRouter::dial, called by post with the address it looked up:
\* sender_cache.entry(addr); an occupied entry gives its client, a vacant one
\* stays held by the task
DialEntry(t) ==
  /\ tasks[t].pc = "dial"
  /\ LET addr == tasks[t].loc[1]
     IN /\ EntryFree(addr)
        /\ tasks' = [tasks EXCEPT ![t] =
                       IF Cached(addr)
                       THEN [@ EXCEPT !.pc = "send", !.loc = <<addr, sender_cache[addr]>>]
                       ELSE [@ EXCEPT !.pc = "vacant"]]
        /\ last' = Did("entry", tasks[t].env.dest,
                       IF Cached(addr) THEN "Occupied" ELSE "Vacant", <<t, addr>>)
  /\ Aside
  /\ UNCHANGED <<address_book, sender_cache, client_buf, dials,
                 buf_closed, wire, rx_end, server, posted, buffer>>

\* DialMailboxRouter::dial with the vacant entry held: channel::dial, and
\* on success MailboxClient::new and entry.insert; on failure post returns
\* the envelope
DialInsert(t, dial_ok) ==
  /\ tasks[t].pc = "vacant"
  /\ LET addr == tasks[t].loc[1]
     IN /\ dials[addr].calls < MaxDials
        /\ IF dial_ok
           THEN /\ Len(client_buf) < MaxDials
                /\ sender_cache' = Put(sender_cache, addr, Len(client_buf) + 1)
                /\ client_buf' = Append(client_buf, <<>>)
                /\ dials' = [dials EXCEPT ![addr].calls = @ + 1, ![addr].made = @ + 1]
                /\ tasks' = [tasks EXCEPT ![t].pc = "send",
                                          ![t].loc = <<addr, Len(client_buf) + 1>>]
                /\ last' = Did("dial", tasks[t].env.dest, "Ok", <<t, addr>>)
                /\ Aside
           ELSE /\ SetSt(dial_err(tasks[t].env, tasks[t].rh, St))
                /\ dials' = [dials EXCEPT ![addr].calls = @ + 1]
                /\ tasks' = [tasks EXCEPT ![t] = NoTask]
                /\ last' = [DidPost("dial", tasks[t].env, tasks[t].rh)
                              EXCEPT !.out = <<"failed", addr>>]
                /\ UNCHANGED <<next_port, allocs, routeVars, sender_cache, client_buf>>
  /\ UNCHANGED <<address_book, buf_closed, wire, rx_end, server, posted, buffer>>

\* DialMailboxRouter::post, the call of sender.post on the client dial
\* returned
DialPostSend(t) ==
  /\ tasks[t].pc = "send"
  /\ Buffered(client_buf) < MaxSends
  /\ client_buf' = ClientPost(tasks[t].loc[2], tasks[t].env, tasks[t].rh)
  /\ SetSt(MailboxClient_post(tasks[t].loc[2], tasks[t].env, tasks[t].rh, St))
  /\ tasks' = [tasks EXCEPT ![t] = NoTask]
  /\ last' = [DidPost("dial", tasks[t].env, tasks[t].rh)
                EXCEPT !.out = <<"sent">> \o tasks[t].loc]
  /\ UNCHANGED <<next_port, allocs, routeVars, address_book, sender_cache, dials,
                 buf_closed, wire, rx_end, server, posted, buffer>>

\* the mutex of the accumulator state of the channel c is held by no task
MutexAlwaysFree(c) == TRUE
MutexFree(c) ==
  \A u \in Tasks : ~(tasks[u].pc \in {"locked", "folded"} /\ tasks[u].loc[1] = c)

\* PortHandle::send on a clone of an accumulator handle: the call of the
\* enqueue closure of open_accum_port
AccumSend(t, h, update) ==
  /\ tasks[t].pc = "idle"
  /\ h \in PortHandles
  /\ opened[h].kind = "accum"
  /\ tasks' = [tasks EXCEPT ![t] = [NoTask EXCEPT !.pc = "enqueue",
                                                  !.loc = <<opened[h].chan, update>>]]
  /\ last' = Did("enqueue", h, "Ok", <<t, update>>)
  /\ Aside
  /\ UNCHANGED <<address_book, sender_cache, client_buf, dials,
                 buf_closed, wire, rx_end, server, posted, buffer>>

\* the enqueue closure of open_accum_port: state.lock(), which returns when
\* no other task holds the lock
AccumLock(t) ==
  /\ tasks[t].pc = "enqueue"
  /\ MutexFree(tasks[t].loc[1])
  /\ tasks' = [tasks EXCEPT ![t].pc = "locked"]
  /\ last' = Did("lock", tasks[t].loc[1], "Ok", <<t, tasks[t].loc[2]>>)
  /\ Aside
  /\ UNCHANGED <<address_book, sender_cache, client_buf, dials,
                 buf_closed, wire, rx_end, server, posted, buffer>>

\* the enqueue closure of open_accum_port: accum.accumulate(&mut state, update)
AccumFold(t) ==
  /\ tasks[t].pc = "locked"
  /\ LET c == tasks[t].loc[1]
         update == tasks[t].loc[2]
     IN /\ SetSt([St EXCEPT !.opened =
                    [opened EXCEPT ![c].state = accumulate(@, update),
                                   ![c].sent = IF opened[c].rx = "alive"
                                               THEN Append(@, update) ELSE @]])
        /\ last' = Did("accumulate", c, "Ok", <<t, update>>)
  /\ tasks' = [tasks EXCEPT ![t].pc = "folded"]
  /\ UNCHANGED <<next_port, allocs, routeVars, address_book, sender_cache, client_buf,
                 dials, buf_closed, wire, rx_end, server, posted, buffer>>

\* the enqueue closure of open_accum_port: sender.send(state.clone()), whose
\* failure is ignored, and the end of the closure, where the lock is released
AccumEmit(t) ==
  /\ tasks[t].pc = "folded"
  /\ LET c == tasks[t].loc[1]
     IN /\ SetSt([St EXCEPT !.opened =
                    IF opened[c].rx = "alive"
                    THEN [opened EXCEPT ![c].queue = Append(@, opened[c].state)]
                    ELSE opened])
        /\ last' = Did("send", c, "Ok", <<tasks[t].loc[2]>>)
  /\ tasks' = [tasks EXCEPT ![t] = NoTask]
  /\ UNCHANGED <<next_port, allocs, routeVars, address_book, sender_cache, client_buf,
                 dials, buf_closed, wire, rx_end, server, posted, buffer>>

\* the entry of the port p in State.ports is held by no task
PortEntryFree(p) ==
  \A u \in Tasks : ~(tasks[u].pc = "entry" /\ tasks[u].env.dest = p)

\* <Mailbox as MailboxSender>::post called by one of several tasks, for a
\* port of the mailbox
TaskPost(t, m, env, rh) ==
  /\ tasks[t].pc = "idle"
  /\ env.dest[1] = m
  /\ tasks' = [tasks EXCEPT ![t] = [NoTask EXCEPT !.pc = "post", !.env = env, !.rh = rh]]
  /\ last' = Did("call_post", env.dest, "Ok", <<t>>)
  /\ Aside
  /\ UNCHANGED <<address_book, sender_cache, client_buf, dials,
                 buf_closed, wire, rx_end, server, posted, buffer>>

\* Mailbox::post: self.inner.ports.entry(index), which returns when no other
\* task holds the entry
TaskPostEntry(t) ==
  /\ tasks[t].pc = "post"
  /\ PortEntryFree(tasks[t].env.dest)
  /\ tasks' = [tasks EXCEPT ![t].pc = "entry"]
  /\ last' = Did("entry", tasks[t].env.dest,
                 IF tasks[t].env.dest \in DOMAIN ports THEN "Occupied" ELSE "Vacant", <<t>>)
  /\ Aside
  /\ UNCHANGED <<address_book, sender_cache, client_buf, dials,
                 buf_closed, wire, rx_end, server, posted, buffer>>

\* Mailbox::post with the entry held: the match on the entry, to the end
TaskPostDispatch(t) ==
  /\ tasks[t].pc = "entry"
  /\ SetSt(MailboxPost(tasks[t].env.dest[1], tasks[t].env, tasks[t].rh, St))
  /\ tasks' = [tasks EXCEPT ![t] = NoTask]
  /\ last' = [DidPost("mailbox", tasks[t].env, tasks[t].rh) EXCEPT !.out = <<t>>]
  /\ UNCHANGED <<next_port, allocs, routeVars, address_book, sender_cache, client_buf,
                 dials, buf_closed, wire, rx_end, server, posted, buffer>>

(***************************************************************************)
(* Buffer.  buffer describes one Buffer, its task and a call of flush:     *)
(*   queue      the mpsc queue                                             *)
(*   seq        Buffer.seq, the enqueue counter                            *)
(*   processed  the value of the watch channel last_processed / processed  *)
(*   unseen     that value changed since processed last looked             *)
(*   task       "recv" | "process" | "ended": the task is in next.recv(),  *)
(*              in process(msg), or gone with the runtime                  *)
(*   cur        the item the task is processing                            *)
(*   flush      "none" | "loop" | "await" | "Ok" | "Err": the call of      *)
(*              flush is not made, at the test of its loop, in changed(),  *)
(*              or has returned                                            *)
(*   target     the local seq of flush                                     *)
(*   sent       history: the items the queue accepted, in order            *)
(*   done       history: the items processed, in order                     *)
(*   at_call    history: the length of sent when flush was called          *)
(* send takes &self and is called by several tasks; flush takes &mut self, *)
(* so no call of send is in progress while a call of flush is.             *)
(***************************************************************************)
NoBuffer == [made |-> FALSE]
NewBuffer == [made |-> TRUE, queue |-> <<>>, seq |-> 0, processed |-> 0,
              unseen |-> FALSE, task |-> "recv", cur |-> 0, flush |-> "none",
              target |-> 0, sent |-> <<>>, done |-> <<>>, at_call |-> 0]

\* an operation on the Buffer alone
BufferOp(op, res, out) ==
  /\ last' = Did(op, NoPort, res, out)
  /\ Quiet
  /\ UNCHANGED <<mboxVars, routeVars, address_book, sender_cache, client_buf, dials,
                 buf_closed, wire, rx_end, server, posted>>

Flushing == buffer.flush \in {"loop", "await"}

\* Buffer::new
BufferNew ==
  /\ ~buffer.made
  /\ buffer' = NewBuffer
  /\ UNCHANGED tasks
  /\ BufferOp("buffer_new", "Ok", <<>>)

\* Buffer::send: self.seq.fetch_add(1)
BufferSendCount(t, item) ==
  /\ buffer.made /\ ~Flushing
  /\ tasks[t].pc = "idle"
  /\ buffer.seq < MaxSends
  /\ buffer' = [buffer EXCEPT !.seq = @ + 1]
  /\ tasks' = [tasks EXCEPT ![t] = [NoTask EXCEPT !.pc = "queue", !.loc = <<item>>]]
  /\ BufferOp("fetch_add", "Ok", <<t, item>>)

\* Buffer::send: self.queue.send(item), which fails when the task is gone
BufferSendQueue(t) ==
  /\ buffer.made
  /\ tasks[t].pc = "queue"
  /\ buffer' = IF buffer.task = "ended" THEN buffer
               ELSE [buffer EXCEPT !.queue = Append(@, tasks[t].loc[1]),
                                   !.sent = Append(@, tasks[t].loc[1])]
  /\ tasks' = [tasks EXCEPT ![t] = NoTask]
  /\ BufferOp("buffer_send", IF buffer.task = "ended" THEN "Err" ELSE "Ok",
              <<t, tasks[t].loc[1]>>)

\* the task of Buffer::new: next.recv() yields the head of the queue
BufferTaskRecv ==
  /\ buffer.made
  /\ buffer.task = "recv"
  /\ buffer.queue # <<>>
  /\ buffer' = [buffer EXCEPT !.queue = Tail(@), !.cur = Head(buffer.queue),
                              !.task = "process"]
  /\ UNCHANGED tasks
  /\ BufferOp("task_recv", "Ok", <<Head(buffer.queue)>>)

\* the task of Buffer::new: process(msg) is over, seq += 1 and
\* last_processed.send(seq)
BufferTaskProcessed ==
  /\ buffer.made
  /\ buffer.task = "process"
  /\ buffer' = [buffer EXCEPT !.done = Append(@, buffer.cur), !.processed = @ + 1,
                              !.unseen = TRUE, !.task = "recv", !.cur = 0]
  /\ UNCHANGED tasks
  /\ BufferOp("task_processed", "Ok", <<buffer.cur>>)

\* the runtime shuts down: the task is dropped where it waits, and with it
\* the receiving end of the queue and last_processed
BufferTaskEnds ==
  /\ buffer.made
  /\ buffer.task # "ended"
  /\ buffer' = [buffer EXCEPT !.task = "ended", !.queue = <<>>, !.cur = 0]
  /\ UNCHANGED tasks
  /\ BufferOp("task_ends", "Ok", <<>>)

\* Buffer::flush: self.seq.load()
Flush ==
  /\ buffer.made /\ ~Flushing
  /\ \A t \in Tasks : tasks[t].pc # "queue"
  /\ buffer' = [buffer EXCEPT !.flush = "loop", !.target = buffer.seq,
                              !.at_call = Len(buffer.sent)]
  /\ UNCHANGED tasks
  /\ BufferOp("flush", "Running", <<>>)

\* Buffer::flush, the test of the loop: *self.processed.borrow_and_update()
\* < seq
CaughtUpAlways(b) == TRUE
CaughtUp(b) == ~(b.processed < b.target)
FlushTest ==
  /\ buffer.made
  /\ buffer.flush = "loop"
  /\ buffer' = [buffer EXCEPT !.unseen = FALSE,
                              !.flush = IF CaughtUp(buffer) THEN "Ok" ELSE "await"]
  /\ UNCHANGED tasks
  /\ BufferOp("flush", IF CaughtUp(buffer) THEN "Ok" ELSE "Running", <<>>)

\* Buffer::flush: self.processed.changed().await?, ready when the value
\* changed since it was last looked at, or, with an error, when
\* last_processed is gone
FlushChanged ==
  /\ buffer.made
  /\ buffer.flush = "await"
  /\ buffer.unseen \/ buffer.task = "ended"
  /\ buffer' = IF buffer.unseen
               THEN [buffer EXCEPT !.unseen = FALSE, !.flush = "loop"]
               ELSE [buffer EXCEPT !.flush = "Err"]
  /\ UNCHANGED tasks
  /\ BufferOp("flush", IF buffer.unseen THEN "Running" ELSE "Err", <<>>)

(***************************************************************************)
(* The mailbox specification: every operation on the mailbox MA; MB is the *)
(* actor other envelopes are addressed to.                                 *)
(***************************************************************************)
\* the destinations of the envelopes posted to MA: its own ports and a port
\* of another actor
PostDests == ({MA} \X PortIndices) \cup {<<MB, USER_PORT_OFFSET>>}
Envelopes == {Envelope(s, d, data, h) :
                s \in Senders, d \in PostDests, data \in Payloads, h \in Headers}

Init ==
  /\ next_port = [m \in Mailboxes |-> USER_PORT_OFFSET]
  /\ ports = Empty
  /\ opened = Empty
  /\ allocs = [m \in Mailboxes |-> <<>>]
  /\ returned = NoReturns
  /\ forwarded = <<>>
  /\ last = Did("new", NoPort, "Ok", <<>>)
  /\ mux = Empty
  /\ entries = Empty
  /\ strong = 1
  /\ address_book = Empty
  /\ sender_cache = Empty
  /\ client_buf = <<>>
  /\ dials = NoDials
  /\ buf_closed = {}
  /\ wire = <<>>
  /\ rx_end = "open"
  /\ server = NoServer
  /\ posted = <<>>
  /\ tasks = [t \in Tasks |-> NoTask]
  /\ buffer = NoBuffer

\* the life of unbounded ports
Next ==
  \/ Len(allocs[MA]) < MaxOpen /\ OpenPort(MA, "u64")
  \/ \E h \in DOMAIN opened : Bind(h)
  \/ \E h \in DOMAIN opened, k \in HandlerPorts : BindTo(h, k)
  \/ \E h \in DOMAIN opened, v \in Vals : Send(h, v)
  \/ \E e \in Envelopes : Post(MA, e, "caller")
  \/ \E c \in DOMAIN opened : Recv(c)
  \/ \E c \in DOMAIN opened : TryRecv(c)
  \/ \E c \in DOMAIN opened : Drain(c)
  \/ \E c \in DOMAIN opened : DropReceiver(c)

Spec == Init /\ [][Next]_vars

\* the life of one-shot ports
NextOnce ==
  \/ Len(allocs[MA]) < MaxOpen /\ OpenOncePort(MA)
  \/ \E h \in DOMAIN opened : BindOnce(h)
  \/ \E h \in DOMAIN opened, v \in Vals : SendOnce(h, v)
  \/ \E e \in Envelopes : Post(MA, e, "caller")
  \/ \E c \in DOMAIN opened : OnceRecv(c)
  \/ \E c \in DOMAIN opened : DropOnceReceiver(c)

SpecOnce == Init /\ [][NextOnce]_vars

\* tasks that post at the same time to one bound one-shot port; the drop of
\* the receiver waits for the entry it removes
OnceEnvelopes == {Envelope(MB, <<MA, USER_PORT_OFFSET>>, data, EmptyAttrs) : data \in Payloads}

NextOncePost ==
  \/ Len(allocs[MA]) < MaxOpen /\ OpenOncePort(MA)
  \/ \E h \in DOMAIN opened : BindOnce(h)
  \/ \E t \in Tasks, e \in OnceEnvelopes : TaskPost(t, MA, e, "caller")
  \/ \E t \in Tasks : TaskPostEntry(t)
  \/ \E t \in Tasks : TaskPostDispatch(t)
  \/ \E c \in DOMAIN opened : PortEntryFree(c) /\ OnceRecv(c)
  \/ \E c \in DOMAIN opened : PortEntryFree(c) /\ DropOnceReceiver(c)

SpecOncePost == Init /\ [][NextOncePost]_vars

\* the life of accumulator ports
NextAccum ==
  \/ Len(allocs[MA]) < MaxOpen /\ OpenAccumPort(MA)
  \/ \E h \in DOMAIN opened : Bind(h)
  \/ \E h \in DOMAIN opened, v \in Vals : Send(h, v)
  \/ \E e \in Envelopes : Post(MA, e, "caller")
  \/ \E c \in DOMAIN opened : Recv(c)
  \/ \E c \in DOMAIN opened : TryRecv(c)
  \/ \E c \in DOMAIN opened : Drain(c)
  \/ \E c \in DOMAIN opened : DropReceiver(c)

SpecAccum == Init /\ [][NextAccum]_vars

\* tasks that send on clones of one accumulator handle at the same time
NextFold ==
  \/ Len(allocs[MA]) < MaxOpen /\ OpenAccumPort(MA)
  \/ \E t \in Tasks, h \in DOMAIN opened, v \in Vals : AccumSend(t, h, v)
  \/ \E t \in Tasks : AccumLock(t)
  \/ \E t \in Tasks : AccumFold(t)
  \/ \E t \in Tasks : AccumEmit(t)

SpecFold == Init /\ [][NextFold]_vars

\* a Buffer, the tasks that send to it, its own task and the calls of flush;
\* its task and a call of flush in progress are scheduled fairly
BufferTaskStep == BufferTaskRecv \/ BufferTaskProcessed
FlushStep == FlushTest \/ FlushChanged

NextBuffer ==
  \/ BufferNew
  \/ \E t \in Tasks, v \in Vals : BufferSendCount(t, v)
  \/ \E t \in Tasks : BufferSendQueue(t)
  \/ BufferTaskRecv
  \/ BufferTaskProcessed
  \/ BufferTaskEnds
  \/ Flush
  \/ FlushTest
  \/ FlushChanged

FairBuffer ==
  Init /\ [][NextBuffer]_vars /\ WF_vars(BufferTaskStep) /\ WF_vars(FlushStep)

\* every operation that allocates a port: all of them on MA, where bind_to
\* makes the return port that bound_return_handle needs, and open_port on
\* both mailboxes
NextAlloc ==
  \/ \E m \in Mailboxes, ty \in MsgTypes : OpenPort(m, ty)
  \/ OpenAccumPort(MA)
  \/ OpenEnqueuePort(MA)
  \/ OpenOncePort(MA)
  \/ BoundReturnHandle(MA)
  \/ \E t \in DOMAIN opened : Split(MA, t)
  \/ \E h \in DOMAIN opened, k \in HandlerPorts : BindTo(h, k)

SpecAlloc == Init /\ [][NextAlloc]_vars

\* ports of the three kinds side by side, bound or not
NextOpen ==
  \/ Len(allocs[MA]) < MaxOpen /\ OpenPort(MA, "u64")
  \/ Len(allocs[MA]) < MaxOpen /\ OpenAccumPort(MA)
  \/ Len(allocs[MA]) < MaxOpen /\ OpenOncePort(MA)
  \/ \E h \in DOMAIN opened : Bind(h)
  \/ \E h \in DOMAIN opened : BindOnce(h)
  \/ \E h \in DOMAIN opened, v \in Vals : Send(h, v)
  \/ \E h \in DOMAIN opened, v \in Vals : SendOnce(h, v)
  \/ \E e \in Envelopes : Post(MA, e, "caller")
  \/ \E c \in DOMAIN opened : DropReceiver(c)
  \/ \E c \in DOMAIN opened : DropOnceReceiver(c)

SpecOpen == Init /\ [][NextOpen]_vars

\* the senders that route: a muxer, a router and its weak handle, a dialing
\* router with the unroutable default, over the mailboxes MA and MB
RouteRefs == {<<1, 0>>, MB}
RouteDests == Mailboxes \X {USER_PORT_OFFSET}
RouteEnvelopes == {Envelope(MB, d, Serialize("u64", 1), EmptyAttrs) : d \in RouteDests}

NextRoute ==
  \/ \E m \in Mailboxes :
       next_port[m] = USER_PORT_OFFSET /\ OpenPort(m, "u64")
  \/ \E h \in DOMAIN opened : Bind(h)
  \/ \E m \in Mailboxes : MuxBind(m, m)
  \/ \E m \in Mailboxes : MuxUnbind(m)
  \/ \E ref \in RouteRefs, m \in Mailboxes : RouterBind(ref, m)
  \/ RouterDrop
  \/ DialBind(<<1, 0>>, "unix!@1")
  \/ \E e \in RouteEnvelopes : Post(MA, e, "caller")
  \/ \E e \in RouteEnvelopes : PostMuxer(e, "caller")
  \/ \E e \in RouteEnvelopes : PostRouter(e, "caller")
  \/ \E e \in RouteEnvelopes : PostWeak(e, "caller")
  \/ \E e \in RouteEnvelopes : DialPost(e, "caller", FALSE)

SpecRoute == Init /\ [][NextRoute]_vars

\* a router, its clones and the weak router downgraded from it
NextWeak ==
  \/ \E m \in Mailboxes :
       next_port[m] = USER_PORT_OFFSET /\ OpenPort(m, "u64")
  \/ \E h \in DOMAIN opened : Bind(h)
  \/ \E ref \in RouteRefs, m \in Mailboxes : RouterBind(ref, m)
  \/ RouterClone
  \/ RouterDrop
  \/ \E e \in RouteEnvelopes : PostRouter(e, "caller")
  \/ \E e \in RouteEnvelopes : PostWeak(e, "caller")

SpecWeak == Init /\ [][NextWeak]_vars

\* the two sorted tables and their lookups
LookupEnvelopes == {Envelope(MB, <<a, USER_PORT_OFFSET>>, Serialize("u64", 1), EmptyAttrs) :
                      a \in ActorIds}

LookupRefs == {<<1>>, <<1, 0>>, <<1, 1>>, <<1, 1, 1, 0>>, <<1, 1, 2, 0>>}

NextLookup ==
  \/ \E ref \in LookupRefs, m \in Mailboxes : RouterBind(ref, m)
  \/ \E e \in LookupEnvelopes : PostRouter(e, "caller")
  \/ \E ref \in LookupRefs, a \in Addrs : DialBind(ref, a)
  \/ \E a \in ActorIds : LookupAddr(a)

SpecLookup == Init /\ [][NextLookup]_vars

\* the dialing router and the clients it dials
DialEnvelopes == {Envelope(MB, <<a, USER_PORT_OFFSET>>, Serialize("u64", 1), EmptyAttrs) :
                    a \in {MA, MB}}

DialRefs == {<<1, 0>>, MB}

NextDial ==
  \/ \E ref \in DialRefs, a \in Addrs : DialBind(ref, a)
  \/ \E ref \in DialRefs \cup {<<1>>} : DialUnbind(ref)
  \/ \E e \in DialEnvelopes, ok \in BOOLEAN : DialPost(e, "caller", ok)
  \/ \E id \in 1..Len(client_buf), ok \in BOOLEAN : ClientProcess(id, ok)

SpecDial == Init /\ [][NextDial]_vars

\* tasks that post through the dialing router at the same time, once its
\* address book is set up
Untouched == dials = NoDials /\ client_buf = <<>> /\ tasks = [t \in Tasks |-> NoTask]

NextPosts ==
  \/ \E ref \in DialRefs, a \in Addrs : Untouched /\ DialBind(ref, a)
  \/ \E t \in Tasks, e \in DialEnvelopes : DialPostLookup(t, e, "caller")
  \/ \E t \in Tasks : DialEntry(t)
  \/ \E t \in Tasks, ok \in BOOLEAN : DialInsert(t, ok)
  \/ \E t \in Tasks : DialPostSend(t)

SpecPosts == Init /\ [][NextPosts]_vars

\* tasks that post through the dialing router while others bind and unbind;
\* bind and unbind wait for the entry from which they evict a sender
RaceRefs == {<<1, 0>>}
RaceEnvelopes == {Envelope(MB, <<MA, USER_PORT_OFFSET>>, Serialize("u64", 1), EmptyAttrs)}

NextRace ==
  \/ \E ref \in RaceRefs, a \in Addrs :
       /\ (ref \in DOMAIN address_book /\ address_book[ref] # a) => EntryFree(address_book[ref])
       /\ DialBind(ref, a)
  \/ \E ref \in RaceRefs \cup {<<1>>} :
       /\ \A k \in to_remove(ref) : EntryFree(address_book[k])
       /\ DialUnbind(ref)
  \/ \E t \in Tasks, e \in RaceEnvelopes : DialPostLookup(t, e, "caller")
  \/ \E t \in Tasks : DialEntry(t)
  \/ \E t \in Tasks : DialInsert(t, TRUE)
  \/ \E t \in Tasks : DialPostSend(t)

SpecRace == Init /\ [][NextRace]_vars

\* the address book of the dialing router under bind, unbind and post, with
\* keys of every depth
BookRefs == {<<1>>, <<1, 0>>, <<1, 1>>, MB}

NextBook ==
  \/ \E ref \in BookRefs, a \in Addrs : DialBind(ref, a)
  \/ \E ref \in BookRefs : DialUnbind(ref)
  \/ \E e \in DialEnvelopes : DialPost(e, "caller", TRUE)

SpecBook == Init /\ [][NextBook]_vars

\* an envelope in hand: made new, marked with errors by the layers it passes,
\* then posted to the mailbox MA, whose one port is unbounded or one-shot,
\* bound or not, with or without its receiver
Errors == {DeliveryError("BrokenLink", "link"), DeliveryError("Unroutable", "route")}
Held == last.op \in {"envelope_new", "try_set_error"}

\* MessageEnvelope::new
NewEnvelope(e) ==
  /\ last' = [Did("envelope_new", e.dest, "Ok", <<>>) EXCEPT !.env = e]
  /\ Quiet
  /\ UNCHANGED <<mboxVars, routeVars, dialVars>>

\* MessageEnvelope::try_set_error on the envelope in hand; the operation
\* records every error it was called with
TrySetError(err) ==
  /\ Held
  /\ Len(last.out) < MaxErrors
  /\ last' = [Did("try_set_error", last.pid, "Ok", Append(last.out, err)) EXCEPT
                !.env = try_set_error(last.env, err)]
  /\ Quiet
  /\ UNCHANGED <<mboxVars, routeVars, dialVars>>

NextEnvelope ==
  \/ Len(allocs[MA]) < MaxOpen /\ OpenPort(MA, "u64")
  \/ Len(allocs[MA]) < MaxOpen /\ OpenOncePort(MA)
  \/ \E h \in DOMAIN opened : Bind(h)
  \/ \E h \in DOMAIN opened : BindOnce(h)
  \/ \E c \in DOMAIN opened : DropReceiver(c)
  \/ \E c \in DOMAIN opened : DropOnceReceiver(c)
  \/ \E e \in Envelopes : NewEnvelope(e)
  \/ \E err \in Errors : TrySetError(err)
  \/ \E rh \in ReturnHandles : Held /\ Post(MA, last.env, rh)

SpecEnvelope == Init /\ [][NextEnvelope]_vars

\* UndeliverableMailboxSender::post: the envelope is logged, and that is all
UndeliverableMailboxSender_post(env, rh, st) == st

\* UndeliverableMailboxSender::post called by a user
PostUndeliverableSender(env, rh) ==
  /\ SetSt(UndeliverableMailboxSender_post(env, rh, St))
  /\ last' = DidPost("undeliverable_sender", env, rh)
  /\ UNCHANGED <<next_port, allocs, routeVars, dialVars>>

\* the destination is a port made by split: its entry holds the enqueue
\* closure that posts on the same mailbox
IsSplit(dest) == dest \in DOMAIN ports /\ ports[dest].kind = "untyped"

\* the calling thread is inside a post that has not returned
Blocked == last.op = "post" /\ last.out = <<"blocked">>

\* Mailbox::post to a split port.  ports.entry(split index) holds the write
\* lock of the entry's shard of the DashMap while send_serialized runs the
\* closure, which calls Mailbox::post and so ports.entry(target index) on the
\* same thread.  The shard of a key is its hash under the map's RandomState:
\* same_shard tells whether the two indices fall in one shard.  If they do,
\* the inner entry() waits for a lock its own thread holds, and the post does
\* not return.
PostSplit(m, env, rh, same_shard) ==
  /\ env.dest[1] = m
  /\ IsSplit(env.dest)
  /\ IF same_shard
     THEN /\ last' = [DidPost("mailbox", env, rh) EXCEPT !.out = <<"blocked">>]
          /\ Quiet
          /\ UNCHANGED <<mboxVars, routeVars, dialVars>>
     ELSE Post(m, env, rh)

\* Mailbox::post to a split port with a reducer.  The closure posts on the
\* same mailbox only when the update fills the buffer; it then does so with
\* the buffer taken, inside ports.entry(split index), as above.
IsReducing(dest) == dest \in DOMAIN ports /\ ports[dest].kind = "reducing"
PostReduce(m, env, rh, same_shard) ==
  /\ env.dest[1] = m
  /\ IsReducing(env.dest)
  /\ IF same_shard /\ Len(opened[env.dest].queue) + 1 >= opened[env.dest].state
     THEN /\ last' = [DidPost("mailbox", env, rh) EXCEPT !.out = <<"blocked">>]
          /\ opened' = [opened EXCEPT ![env.dest].got = Append(@, env.data),
                                      ![env.dest].queue = <<>>]
          /\ Quiet
          /\ UNCHANGED <<next_port, ports, allocs, routeVars, dialVars>>
     ELSE Post(m, env, rh)

\* one thread working on the mailbox MA, with a port and a port split from
\* it, and on the sender for undeliverable messages
SinkEnvelopes == {Envelope(MB, <<MA, i>>, data, h) :
                    i \in EphemeralPorts, data \in Payloads, h \in Headers}

NextSink ==
  \/ ~Blocked /\ Len(allocs[MA]) < MaxOpen /\ OpenPort(MA, "u64")
  \/ \E h \in DOMAIN opened : ~Blocked /\ Bind(h)
  \/ \E t \in DOMAIN opened : ~Blocked /\ Split(MA, t)
  \/ \E c \in DOMAIN opened : ~Blocked /\ Recv(c)
  \/ \E c \in DOMAIN opened : ~Blocked /\ DropReceiver(c)
  \/ \E e \in SinkEnvelopes : ~Blocked /\ ~IsSplit(e.dest) /\ Post(MA, e, "caller")
  \/ \E e \in SinkEnvelopes, same_shard \in BOOLEAN :
       ~Blocked /\ PostSplit(MA, e, "caller", same_shard)
  \/ \E e \in SinkEnvelopes : ~Blocked /\ PostUndeliverableSender(e, "caller")

SpecSink == Init /\ [][NextSink]_vars

\* every way of binding, on indices that are vacant, occupied or not yet
\* allocated, with the removals by posts and by dropped receivers
BindIndices == HandlerPorts \cup {USER_PORT_OFFSET, USER_PORT_OFFSET + 1}
BindEnvelopes == {Envelope(MB, <<MA, i>>, Serialize("u64", 1), EmptyAttrs) :
                    i \in BindIndices \ HandlerPorts}

\* the first port opened is a plain one; the second is a plain port, a once
\* port or a split of the first
NextBind ==
  \/ Len(allocs[MA]) <= 1 /\ OpenPort(MA, "u64")
  \/ Len(allocs[MA]) = 1 /\ OpenOncePort(MA)
  \/ \E t \in DOMAIN opened : Len(allocs[MA]) = 1 /\ Split(MA, t)
  \/ \E h \in DOMAIN opened : Bind(h)
  \/ \E h \in DOMAIN opened, k \in BindIndices : BindTo(h, k)
  \/ \E h \in DOMAIN opened : BindOnce(h)
  \/ \E e \in BindEnvelopes : ~IsSplit(e.dest) /\ Post(MA, e, "caller")
  \/ \E c \in DOMAIN opened : DropReceiver(c)
  \/ \E c \in DOMAIN opened : DropOnceReceiver(c)

SpecBind == Init /\ [][NextBind]_vars

\* a bound port of MA and a port split from it with the sum reducer, the
\* buffer size being 1 or SPLIT_MAX_BUFFER_SIZE; one thread posts updates
ReduceEnvelopes == {Envelope(MB, <<MA, i>>, Serialize("u64", v), EmptyAttrs) :
                      i \in EphemeralPorts, v \in Vals}

NextReduce ==
  \/ ~Blocked /\ Len(allocs[MA]) < MaxOpen /\ OpenPort(MA, "u64")
  \/ \E h \in DOMAIN opened : ~Blocked /\ Bind(h)
  \/ \E t \in DOMAIN ports, limit \in {1, SPLIT_MAX_BUFFER_SIZE} :
       ~Blocked /\ ports[t].kind = "unbounded" /\ SplitReduce(MA, t, limit)
  \/ \E e \in ReduceEnvelopes, same_shard \in BOOLEAN :
       ~Blocked /\ PostReduce(MA, e, "caller", same_shard)
  \/ \E c \in DOMAIN opened : ~Blocked /\ Recv(c)

\* Mailbox::post to a split port with a reducer by one of several tasks.
\* ports.entry(split index) is held while the closure runs under the mutex
\* of the buffer, so the posts to one split port run one after the other.
\* A task whose closure posts the reduction to an index in the shard it
\* holds does not return and keeps the entry; a task that posts to the split
\* port after that waits for the entry.
Stuck(dest) == \E u \in Tasks : tasks[u].pc = "blocked" /\ tasks[u].loc[1] = dest
TaskPostReduce(t, env, rh, same_shard) ==
  /\ tasks[t].pc = "idle"
  /\ env.dest[1] = MA
  /\ IsReducing(env.dest)
  /\ UNCHANGED <<next_port, allocs, routeVars, address_book, sender_cache, client_buf,
                 dials, buf_closed, wire, rx_end, server, posted, buffer>>
  /\ IF Stuck(env.dest)
     THEN /\ tasks' = [tasks EXCEPT ![t] = [NoTask EXCEPT !.pc = "waiting",
                                                          !.loc = <<env.dest>>]]
          /\ last' = [DidPost("mailbox", env, rh) EXCEPT !.out = <<"waiting">>]
          /\ Quiet /\ UNCHANGED <<ports, opened>>
     ELSE IF same_shard /\ Len(opened[env.dest].queue) + 1 >= opened[env.dest].state
     THEN /\ tasks' = [tasks EXCEPT ![t] = [NoTask EXCEPT !.pc = "blocked",
                                                          !.loc = <<env.dest>>]]
          /\ last' = [DidPost("mailbox", env, rh) EXCEPT !.out = <<"blocked">>]
          /\ opened' = [opened EXCEPT ![env.dest].got = Append(@, env.data),
                                      ![env.dest].queue = <<>>]
          /\ Quiet /\ UNCHANGED ports
     ELSE /\ SetSt(MailboxPost(MA, env, rh, St))
          /\ last' = DidPost("mailbox", env, rh)
          /\ UNCHANGED tasks

SpecReduce == Init /\ [][NextReduce]_vars

\* tasks that post at the same time to a port split with the sum reducer
NextBatch ==
  \/ Len(allocs[MA]) < MaxOpen /\ OpenPort(MA, "u64")
  \/ \E h \in DOMAIN opened : Bind(h)
  \/ \E t \in DOMAIN ports, limit \in {1, SPLIT_MAX_BUFFER_SIZE} :
       ports[t].kind = "unbounded" /\ Len(allocs[MA]) <= MaxOpen /\ SplitReduce(MA, t, limit)
  \/ \E t \in Tasks, e \in ReduceEnvelopes, same_shard \in BOOLEAN :
       TaskPostReduce(t, e, "caller", same_shard)
  \/ \E c \in DOMAIN opened : Recv(c)

SpecBatch == Init /\ [][NextBatch]_vars

\* a port, plain or accumulating, whose handle is dropped while its receiver
\* lives
NextClose ==
  \/ Len(allocs[MA]) < MaxOpen /\ OpenPort(MA, "u64")
  \/ Len(allocs[MA]) < MaxOpen /\ OpenAccumPort(MA)
  \/ \E h \in DOMAIN opened : Bind(h)
  \/ \E h \in DOMAIN opened, v \in Vals : Send(h, v)
  \/ \E h \in DOMAIN opened : DropHandle(h)
  \/ \E e \in SinkEnvelopes : Post(MA, e, "caller")
  \/ \E c \in DOMAIN opened : Recv(c)
  \/ \E c \in DOMAIN opened : TryRecv(c)
  \/ \E c \in DOMAIN opened : Drain(c)

SpecClose == Init /\ [][NextClose]_vars

\* a client, its transport and the server of the mailbox MA
LinkEnvelopes == {Envelope(MB, <<MA, USER_PORT_OFFSET>>, Serialize("u64", v), EmptyAttrs) :
                    v \in Vals}

NextLink ==
  \/ Serve
  \/ Len(allocs[MA]) < MaxOpen /\ OpenPort(MA, "u64")
  \/ \E h \in DOMAIN opened : Bind(h)
  \/ \E e \in LinkEnvelopes : PostClient(e, "caller")
  \/ \E ok \in BOOLEAN : ClientProcess(server.client, ok)
  \/ BufferEnds(server.client)
  \/ \E i \in 1..Len(wire) : AckFail(i)
  \/ \E how \in {"Closed", "Error"} : RxEnd(how)
  \/ ServeTop
  \/ \E ev \in {"envelope", "Closed", "Error"} : ServeRecv(ev)
  \/ ServeChanged
  \/ ~server.stopped /\ Stop
  \/ DropServerHandle
  \/ \E c \in DOMAIN opened : Recv(c)

SpecLink == Init /\ [][NextLink]_vars

\* the same over a transport whose rx reports envelopes or Closed, with the
\* runtime polling the server task whenever it can make a step
ServeStep == ServeTop \/ ServeChanged \/ \E ev \in {"envelope", "Closed"} : ServeRecv(ev)

NextFair ==
  \/ Serve
  \/ Len(allocs[MA]) < MaxOpen /\ OpenPort(MA, "u64")
  \/ \E h \in DOMAIN opened : Bind(h)
  \/ \E e \in LinkEnvelopes : PostClient(e, "caller")
  \/ \E ok \in BOOLEAN : ClientProcess(server.client, ok)
  \/ RxEnd("Closed")
  \/ ServeTop
  \/ \E ev \in {"envelope", "Closed"} : ServeRecv(ev)
  \/ ServeChanged
  \/ ~server.stopped /\ Stop
  \/ DropServerHandle

FairLink == Init /\ [][NextFair]_vars /\ WF_vars(ServeStep)

\* the server of the mailbox MA and the holder of its handle, who calls stop
\* any number of times
NextStop ==
  \/ Serve
  \/ Len(allocs[MA]) < MaxOpen /\ OpenPort(MA, "u64")
  \/ \E h \in DOMAIN opened : Bind(h)
  \/ \E e \in LinkEnvelopes : PostClient(e, "caller")
  \/ ClientProcess(server.client, TRUE)
  \/ RxEnd("Closed")
  \/ ServeTop
  \/ \E ev \in {"envelope", "Closed"} : ServeRecv(ev)
  \/ ServeChanged
  \/ Stop
  \/ DropServerHandle

SpecStop == Init /\ [][NextStop]_vars

\* the muxer over the mailboxes MA and MB, each bound under either actor id
NextMux ==
  \/ \E m \in Mailboxes :
       next_port[m] = USER_PORT_OFFSET /\ OpenPort(m, "u64")
  \/ \E h \in DOMAIN opened : Bind(h)
  \/ \E a \in Mailboxes, m \in Mailboxes : MuxBind(a, m)
  \/ \E a \in Mailboxes : MuxUnbind(a)
  \/ \E e \in RouteEnvelopes : PostMuxer(e, "caller")

SpecMux == Init /\ [][NextMux]_vars

(***************************************************************************)
(* Properties.                                                             *)
(***************************************************************************)
\* the destinations the outermost sender named via cannot resolve: the port
\* is not bound, the actor is not registered, no bound key is a prefix, the
\* router is dropped
Unresolvable(via, env) ==
  CASE via = "mailbox" -> env.dest[1] = MA /\ env.dest \notin DOMAIN ports
    [] via = "muxer" -> env.dest[1] \notin DOMAIN mux
    [] via = "router" -> \A k \in DOMAIN entries : ~is_prefix_of(k, env.dest[1])
    [] via = "weak" ->
         strong = 0 \/ \A k \in DOMAIN entries : ~is_prefix_of(k, env.dest[1])
    [] via = "dial" -> \A k \in DOMAIN address_book : ~is_prefix_of(k, env.dest[1])
    [] OTHER -> FALSE

Queues(o) == [c \in DOMAIN o |-> o[c].queue]

\* env with an error set, and nothing else changed
Failed(env, e) == e.error # NoError /\ e = [env EXCEPT !.error = e.error]

\* C1: an envelope posted to an outermost sender (mailbox, muxer, router, weak
\* router, dialing router with the unroutable default) that cannot resolve
\* its destination comes back exactly once on the return handle supplied,
\* with its error set, and reaches no port.
C1_UndeliverableReturned ==
  [][(last'.op = "post" /\ Unresolvable(last'.res, last'.env)) =>
       /\ Len(returned'[last'.rh]) = 1
       /\ Failed(last'.env, returned'[last'.rh][1])
       /\ \A rh \in ReturnHandles \ {last'.rh} : returned'[rh] = <<>>
       /\ forwarded' = <<>>
       /\ Queues(opened') = Queues(opened)]_vars

\* a post through the router, with entries bound but none a prefix of the
\* destination, has come back as unroutable
C1_Witness ==
  /\ last.op = "post" /\ last.res = "router"
  /\ DOMAIN entries # {}
  /\ \A k \in DOMAIN entries : ~is_prefix_of(k, last.env.dest[1])
  /\ Len(returned["caller"]) = 1
  /\ returned["caller"][1].error.kind = "Unroutable"

\* the handle h of an unbounded port was bound by handle.bind(), its entry is
\* in the ports map and its receiver lives
BoundPort(h) ==
  /\ h \in DOMAIN opened /\ opened[h].kind = "port"
  /\ opened[h].bound /\ opened[h].rx = "alive"
  /\ h \in DOMAIN ports

\* C2: a post to the bound port of an unbounded port handle, with a payload v
\* of the port's type, puts exactly v on the port's receiver, returns nothing
\* and leaves the port's entry in the ports map; recv hands out the message at
\* the head of the queue.
C2_LocalDelivery ==
  [][/\ (last'.op = "post" /\ last'.res = "mailbox" /\ BoundPort(last'.pid)
          /\ last'.env.data.typ = opened[last'.pid].ty) =>
          /\ opened'[last'.pid].queue =
               Append(opened[last'.pid].queue, last'.env.data.val)
          /\ \A c \in DOMAIN opened \ {last'.pid} : opened'[c] = opened[c]
          /\ returned' = NoReturns
          /\ last'.pid \in DOMAIN ports' /\ ports' = ports
     /\ (last'.op = "recv" /\ opened[last'.pid].kind = "port") =>
          last'.out = <<Head(opened[last'.pid].queue)>>]_vars

\* a posted value was delivered to a bound port and then received
C2_Witness ==
  /\ last.op = "recv"
  /\ BoundPort(last.pid)
  /\ opened[last.pid].sent = last.out
  /\ opened[last.pid].got = last.out

\* a handle made by open_port, open_accum_port or open_once_port that was
\* never bound
Unbound(h) ==
  /\ h \in DOMAIN opened
  /\ opened[h].kind \in {"port", "accum", "once"}
  /\ ~opened[h].bound

\* C3: a port opened with open_port, open_once_port or open_accum_port is not
\* in the ports map until its handle is bound; a post to its port id before
\* any bind comes back as Unroutable (port not bound) and delivers nothing,
\* while a send on the handle still reaches the receiver.
C3_UnboundNotInMap ==
  /\ [](\A h \in DOMAIN opened : Unbound(h) => h \notin DOMAIN ports)
  /\ [][/\ (last'.op = "post" /\ Unbound(last'.pid)) =>
             /\ Len(returned'[last'.rh]) = 1
             /\ Failed(last'.env, returned'[last'.rh][1])
             /\ returned'[last'.rh][1].error =
                  DeliveryError("Unroutable", "port not bound in mailbox")
             /\ Queues(opened') = Queues(opened)
        /\ (last'.op \in {"send", "send_once"} /\ Unbound(last'.pid)
              /\ opened[last'.pid].rx = "alive") =>
             /\ last'.res \in {"Ok", "OkFalse"}
             /\ Len(opened'[last'.pid].queue) = Len(opened[last'.pid].queue) + 1
             /\ opened[last'.pid].kind \in {"port", "once"} =>
                  opened'[last'.pid].queue = opened[last'.pid].queue \o last'.out]_vars

\* a post to a port opened and never bound has come back, after a send on its
\* handle had reached the receiver
C3_Witness ==
  /\ last.op = "post" /\ Unbound(last.pid)
  /\ opened[last.pid].queue # <<>>
  /\ Len(returned["caller"]) = 1
  /\ returned["caller"][1].error.kind = "Unroutable"

\* C4: the messages sent on one unbounded port, by handle.send or by post to
\* its bound port id, are received in the order sent, none lost and none
\* twice: what was received followed by what is queued is what was sent, so
\* once all are received the queue is empty and drain returns nothing.
C4_Fifo ==
  \A c \in DOMAIN opened :
    opened[c].kind = "port" =>
      /\ opened[c].got \o opened[c].queue = opened[c].sent
      /\ (last.op = "drain" /\ last.pid = c
            /\ Len(opened[c].got) - Len(last.out) = Len(opened[c].sent)) =>
           last.out = <<>>

\* two different messages were sent and received in that order, and a drain
\* after them returned nothing
C4_Witness ==
  /\ last.op = "drain" /\ last.out = <<>>
  /\ opened[last.pid].kind = "port"
  /\ Len(opened[last.pid].got) = 2
  /\ opened[last.pid].got[1] # opened[last.pid].got[2]
  /\ opened[last.pid].got = opened[last.pid].sent

\* C5: the port indices allocated on one mailbox, by whichever operation and
\* in whichever interleaving, are all at least USER_PORT_OFFSET and strictly
\* increasing in allocation order, hence distinct.
C5_PortUniqueness ==
  \A m \in Mailboxes :
    /\ \A i \in 1..Len(allocs[m]) : allocs[m][i] >= USER_PORT_OFFSET
    /\ \A i \in 1..Len(allocs[m]), j \in 1..Len(allocs[m]) :
         i < j => allocs[m][i] < allocs[m][j]
    /\ {p \in DOMAIN opened : p[1] = m} =
         {<<m, allocs[m][i]>> : i \in 1..Len(allocs[m])}

\* bound_return_handle has allocated the second port of a mailbox whose
\* first was allocated by open_port
C5_Witness ==
  /\ last.op = "bound_return_handle" /\ last.res = "Some"
  /\ allocs[last.pid[1]] = <<USER_PORT_OFFSET, USER_PORT_OFFSET + 1>>
  /\ opened[<<last.pid[1], USER_PORT_OFFSET>>].kind = "port"

\* a one-shot port that was bound and has had a message delivered by a post
DeliveredOnce(p) ==
  /\ p \in DOMAIN opened /\ opened[p].kind = "once"
  /\ opened[p].bound /\ opened[p].sent # <<>>

C7_DropCloses ==
  \A c \in DOMAIN opened :
    opened[c].rx = "dropped" =>
      /\ c \notin DOMAIN ports
      /\ (last.op = "post" /\ last.pid = c) =>
           /\ Len(returned[last.rh]) = 1
           /\ returned[last.rh][1].error.kind = "Unroutable"

\* the bound keys of the table tbl that are prefixes of the actor a, and the
\* longest key of a set
Prefixes(tbl, a) == {k \in DOMAIN tbl : is_prefix_of(k, a)}
Longest(ks) == CHOOSE k \in ks : \A j \in ks : Len(j) <= Len(k)

\* C8: MailboxRouter::post and DialMailboxRouter::lookup_addr resolve to the
\* entry bound at the longest bound prefix of the destination actor; the
\* result is none (the envelope comes back) only if no bound key is a prefix.
C8_LongestPrefix ==
  /\ last.op = "lookup_addr" =>
       LET ks == Prefixes(address_book, last.pid[1])
       IN last.res = IF ks = {} THEN "None" ELSE address_book[Longest(ks)]
  /\ (last.op = "post" /\ last.res = "router") =>
       LET ks == Prefixes(entries, last.env.dest[1])
       IN /\ last.out = IF ks = {} THEN <<>> ELSE <<entries[Longest(ks)]>>
          /\ ks # {} =>
               \A i \in 1..Len(returned[last.rh]) :
                 returned[last.rh][i].error.why # "no destination found for actor in routing table"

\* the accumulator's fold of the updates us from the state s
RECURSIVE Fold(_, _)
Fold(s, us) == IF us = <<>> THEN s ELSE Fold(accumulate(s, Head(us)), Tail(us))

\* C9: on an accumulator port recv, try_recv and drain hand out only the
\* state emitted last, the fold of all updates sent, and leave the queue
\* empty; every send, also one that does not change the fold, queues the
\* current state for the next receive.
C9_Coalescing ==
  /\ [](\A c \in DOMAIN opened :
          (opened[c].kind = "accum" /\ opened[c].queue # <<>>) =>
            Last(opened[c].queue) = Fold(AccumDefault, opened[c].sent))
  /\ [][/\ (last'.op \in {"recv", "try_recv", "drain"}
              /\ opened[last'.pid].kind = "accum"
              /\ opened[last'.pid].queue # <<>>) =>
             /\ last'.out = <<Fold(AccumDefault, opened[last'.pid].sent)>>
             /\ opened'[last'.pid].queue = <<>>
        /\ (last'.op = "send" /\ opened[last'.pid].kind = "accum"
              /\ opened[last'.pid].rx = "alive") =>
             /\ last'.res = "Ok"
             /\ Len(opened'[last'.pid].queue) = Len(opened[last'.pid].queue) + 1]_vars

\* sends of 2 and then, after a recv, of 1, which does not change the
\* maximum: the second recv has handed out 2 again
C9_Witness ==
  /\ last.op = "recv" /\ last.out = <<2>>
  /\ opened[last.pid].kind = "accum"
  /\ opened[last.pid].sent = <<2, 1>>
  /\ opened[last.pid].got = <<2, 2>>

\* C10 as stated: the posts that resolve to one address call dial for it at
\* most once until a reference is rebound from the address or unbind evicts
\* its cache entry.
C10_DialAtMostOnce == \A a \in Addrs : dials[a].calls <= 1

\* C10 amended: the posts that resolve to one address make at most one client
\* for it, by the one call of dial that succeeds, until a reference is rebound
\* from the address or unbind evicts its cache entry; the address is cached
\* exactly while that client stands, and a post to a cached address does not
\* call dial.
C10_OneClientPerAddr ==
  /\ [](\A a \in Addrs :
          /\ dials[a].made <= 1
          /\ dials[a].made = 1 <=> a \in DOMAIN sender_cache)
  /\ [][\A a \in Addrs :
          (last'.op = "post" /\ last'.res = "dial" /\ a \in DOMAIN sender_cache
             /\ lookup_addr(last'.env.dest[1]) = {a}) =>
            dials' = dials /\ sender_cache' = sender_cache]_vars

\* after a call of dial that failed and one that succeeded, a second post to
\* the same address has gone to the client made by the first
C10_Witness ==
  /\ last.op = "post" /\ last.res = "dial"
  /\ \E a \in DOMAIN sender_cache :
       /\ lookup_addr(last.env.dest[1]) = {a}
       /\ dials[a].calls = 2 /\ dials[a].made = 1
       /\ Len(client_buf[sender_cache[a]]) = 2

\* the keys of the address book that have ref as a prefix
Under(ref) == {k \in DOMAIN address_book : is_prefix_of(ref, k)}

\* the key through which lookup_addr resolves actor a in the table tbl
Through(tbl, a) == {k \in lower_bound_prev(DOMAIN tbl, a) : is_prefix_of(k, a)}

C12_RebindDials ==
  [][(last'.op = "dial_bind" /\ last'.out # <<>> /\ last'.out # <<last'.res>>)
       => ~(last'.res \in DOMAIN sender_cache')]_vars

\* C12: DialMailboxRouter.bind(ref, addr) leaves the address book as before
\* except that ref maps to addr; when ref was bound to a different address
\* the sender cached for that previous address, and no other, is removed;
\* when ref was unbound or bound to addr the sender cache is unchanged; no
\* client is made or lost.  A later post that resolves to an address uses the
\* sender cached for it and calls channel::dial only when none is cached.
C12_BindReplaces ==
  [][/\ last'.op = "dial_bind" =>
          LET ref == last'.pid[1]
              addr == last'.res
          IN /\ DOMAIN address_book' = DOMAIN address_book \cup {ref}
             /\ address_book'[ref] = addr
             /\ \A k \in DOMAIN address_book \ {ref} : address_book'[k] = address_book[k]
             /\ last'.out = IF ref \in DOMAIN address_book THEN <<address_book[ref]>> ELSE <<>>
             /\ IF ref \in DOMAIN address_book /\ address_book[ref] # addr
                THEN /\ DOMAIN sender_cache' = DOMAIN sender_cache \ {address_book[ref]}
                     /\ \A a \in DOMAIN sender_cache' : sender_cache'[a] = sender_cache[a]
                ELSE sender_cache' = sender_cache
             /\ client_buf' = client_buf
     /\ (last'.op = "post" /\ last'.res = "dial") =>
          \A addr \in lookup_addr(last'.env.dest[1]) :
             IF addr \in DOMAIN sender_cache
             THEN /\ dials' = dials /\ sender_cache' = sender_cache
                  /\ client_buf' = ClientPost(sender_cache[addr], last'.env, last'.rh)
             ELSE dials'[addr].calls = dials[addr].calls + 1]_vars

\* a proc bound to one address and dialed has just been rebound to another:
\* the client of the old address is out of the cache
C12_Witness ==
  /\ last.op = "dial_bind"
  /\ last.pid = << <<1, 1>> >>
  /\ last.res = "unix!@2"
  /\ last.out = <<"unix!@1">>
  /\ address_book = Put(Empty, <<1, 1>>, "unix!@2")
  /\ Len(client_buf) = 1
  /\ sender_cache = Empty

\* C13: DialMailboxRouter.post of an envelope for which lookup_addr finds no
\* entry goes to the default sender once: with the default of
\* DialMailboxRouter::new the envelope comes back exactly once on the return
\* handle supplied, unchanged but for the error Unroutable("destination not
\* found in routing table"); channel::dial is not called, and the address
\* book, the sender cache and every client's buffer are unchanged.
C13_UnknownToDefault ==
  [][(last'.op = "post" /\ last'.res = "dial" /\ lookup_addr(last'.env.dest[1]) = {}) =>
       /\ returned'[last'.rh] =
            <<[last'.env EXCEPT !.error =
                 DeliveryError("Unroutable", "destination not found in routing table")]>>
       /\ \A rh \in ReturnHandles \ {last'.rh} : returned'[rh] = <<>>
       /\ forwarded' = <<>>
       /\ dials' = dials
       /\ sender_cache' = sender_cache
       /\ client_buf' = client_buf
       /\ address_book' = address_book]_vars

\* with one proc bound and its client dialed, a post to an actor of another
\* proc has come back from the default sender
C13_Witness ==
  /\ last.op = "post" /\ last.res = "dial"
  /\ DOMAIN address_book = {<<1, 1>>}
  /\ last.env.dest[1] = MA
  /\ DOMAIN sender_cache = {address_book[<<1, 1>>]}
  /\ Len(returned["caller"]) = 1
  /\ returned["caller"][1].error.why = "destination not found in routing table"

\* C14: MailboxMuxer.bind(actor_id, sender) on a bound actor id returns false
\* and leaves the muxer as it was, existing sender included; on an unbound
\* actor id it returns true and adds actor_id -> sender, nothing else.
\* unbind(actor_id) removes the entry of actor_id and no other, so that the
\* next bind of that actor id is one on an unbound id.
C14_BindOnce ==
  [][/\ last'.op = "mux_bind" =>
          LET a == last'.pid[1]
          IN IF a \in DOMAIN mux
             THEN last'.res = "false" /\ mux' = mux
             ELSE /\ last'.res = "true"
                  /\ DOMAIN mux' = DOMAIN mux \cup {a}
                  /\ mux'[a] = last'.out[1]
                  /\ \A b \in DOMAIN mux : mux'[b] = mux[b]
     /\ last'.op = "mux_unbind" =>
          LET a == last'.pid[1]
          IN /\ DOMAIN mux' = DOMAIN mux \ {a}
             /\ \A b \in DOMAIN mux' : mux'[b] = mux[b]]_vars

\* a bind of another sender under a bound actor id has returned false and the
\* first sender is still the one bound
C14_Witness ==
  /\ last.op = "mux_bind"
  /\ last.pid = <<MA>>
  /\ last.res = "false"
  /\ last.out = <<MB>>
  /\ MA \in DOMAIN mux
  /\ mux[MA] = MA

\* C15: MailboxMuxer.post hands the envelope to the sender bound under the
\* destination's actor id and to no other: a mailbox bound under its own id
\* delivers to its bound port or returns the envelope for an unbound port, a
\* mailbox bound under another id forwards it.  When nothing is bound under
\* that actor id, whatever else is bound, the envelope comes back once on the
\* return handle with Unroutable and reaches no sender.
C15_MuxerExact ==
  [][(last'.op = "post" /\ last'.res = "muxer") =>
       LET env == last'.env
           a == env.dest[1]
       IN IF a \notin DOMAIN mux
          THEN /\ returned'[last'.rh] =
                    <<[env EXCEPT !.error =
                         DeliveryError("Unroutable", "no mailbox for actor registered in muxer")]>>
               /\ forwarded' = <<>>
               /\ opened' = opened /\ ports' = ports
          ELSE IF mux[a] # a
          THEN /\ forwarded' = <<[mbox |-> mux[a], env |-> env, rh |-> last'.rh]>>
               /\ returned' = NoReturns
               /\ opened' = opened /\ ports' = ports
          ELSE IF env.dest \in DOMAIN ports
          THEN /\ opened'[ports[env.dest].chan].queue =
                    Append(opened[ports[env.dest].chan].queue, env.data.val)
               /\ returned' = NoReturns /\ forwarded' = <<>>
          ELSE /\ returned'[last'.rh] =
                    <<[env EXCEPT !.error =
                         DeliveryError("Unroutable", "port not bound in mailbox")]>>
               /\ forwarded' = <<>>
               /\ opened' = opened]_vars

\* the port of MA is bound in its mailbox and MB is bound in the muxer, but
\* MA is not: the post to the port of MA has come back as unroutable
C15_Witness ==
  /\ last.op = "post" /\ last.res = "muxer"
  /\ last.pid = <<MA, USER_PORT_OFFSET>>
  /\ <<MA, USER_PORT_OFFSET>> \in DOMAIN ports
  /\ DOMAIN mux = {MB}
  /\ Len(returned["caller"]) = 1
  /\ returned["caller"][1].error =
       DeliveryError("Unroutable", "no mailbox for actor registered in muxer")

\* C16: the error of an envelope is written at most once.  try_set_error on
\* an envelope without an error sets the error given, on an envelope with an
\* error changes nothing, so that after any number of calls the envelope
\* carries the error of the first; and Mailbox.post of an envelope that has
\* an error returns it, when it returns it, with that error and no other.
C16_FirstErrorWins ==
  [][/\ last'.op = "try_set_error" =>
          /\ last'.env = IF last.env.error = NoError
                         THEN [last.env EXCEPT !.error = Last(last'.out)]
                         ELSE last.env
          /\ last'.env.error = last'.out[1]
     /\ (last'.op = "post" /\ last'.env.error # NoError) =>
          \A rh \in ReturnHandles : \A i \in 1..Len(returned'[rh]) :
             returned'[rh][i] = last'.env]_vars

\* an envelope marked as a broken link was posted to a port that is not
\* bound, and has come back as a broken link, not as unroutable
C16_Witness ==
  /\ last.op = "post"
  /\ last.pid \notin DOMAIN ports
  /\ last.env.error = DeliveryError("BrokenLink", "link")
  /\ returned["caller"] = <<last.env>>

\* C17: Mailbox.post of an envelope addressed to another actor hands the
\* forwarder of the mailbox that envelope, error included, and that return
\* handle, once; nothing is returned, the ports map is unchanged, and no
\* channel of the mailbox changes, also when the port index of the
\* destination is bound in the mailbox.
C17_ForwardOnly ==
  [][(last'.op = "post" /\ last'.res = "mailbox" /\ last'.env.dest[1] # MA) =>
       /\ forwarded' = <<[mbox |-> MA, env |-> last'.env, rh |-> last'.rh]>>
       /\ returned' = NoReturns
       /\ ports' = ports
       /\ opened' = opened]_vars

\* an envelope for port 1024 of MB went to the forwarder of MA although port
\* 1024 of MA is bound to a live channel of the payload's type, which stays
\* empty
C17_Witness ==
  /\ last.op = "post"
  /\ last.pid = <<MB, USER_PORT_OFFSET>>
  /\ last.rh = "monitored"
  /\ <<MA, USER_PORT_OFFSET>> \in DOMAIN ports
  /\ ports[<<MA, USER_PORT_OFFSET>>].kind = "unbounded"
  /\ last.env.data.typ = ports[<<MA, USER_PORT_OFFSET>>].ty
  /\ opened[<<MA, USER_PORT_OFFSET>>].rx = "alive"
  /\ opened[<<MA, USER_PORT_OFFSET>>].queue = <<>>
  /\ Len(forwarded) = 1

\* the sender bound at the destination of env rejects its payload: the
\* payload is not of the port's type, the channel's receiver is gone, or the
\* one-shot sender has been used
Rejects(env) ==
  /\ env.dest[1] = MA
  /\ env.dest \in DOMAIN ports
  /\ LET s == ports[env.dest]
     IN \/ s.ty # env.data.typ
        \/ opened[s.chan].rx # "alive"
        \/ s.kind = "once" /\ opened[s.chan].once = "taken"

\* C18: when the sender bound at the destination port rejects the payload,
\* Mailbox.post sends to the return handle given, once, an envelope with the
\* sender, dest, headers and data of the posted one, whose error is a Mailbox
\* error if the posted envelope had none and the posted envelope's error
\* otherwise; nothing is forwarded, no queue changes, and the ports map,
\* the rejecting entry included, is unchanged.
C18_RejectedReturned ==
  [][(last'.op = "post" /\ last'.res = "mailbox" /\ Rejects(last'.env)) =>
       /\ Len(returned'[last'.rh]) = 1
       /\ LET env == last'.env
              e == returned'[last'.rh][1]
          IN /\ e.sender = env.sender /\ e.dest = env.dest
             /\ e.headers = env.headers /\ e.data = env.data
             /\ IF env.error = NoError THEN e.error.kind = "Mailbox"
                ELSE e.error = env.error
       /\ \A rh \in ReturnHandles \ {last'.rh} : returned'[rh] = <<>>
       /\ forwarded' = <<>>
       /\ Queues(opened') = Queues(opened)
       /\ ports' = ports]_vars

\* a post to a bound one-shot port whose receiver is gone has come back with
\* the Mailbox error of a closed port, and the port is still bound
C18_Witness ==
  /\ last.op = "post"
  /\ last.pid \in DOMAIN ports
  /\ ports[last.pid].kind = "once"
  /\ opened[last.pid].rx = "dropped"
  /\ last.env.data.typ = ports[last.pid].ty
  /\ Len(returned[last.rh]) = 1
  /\ returned[last.rh][1].error = DeliveryError("Mailbox", "Closed")

\* the payload of env was accepted by a channel of the mailbox and is in its
\* queue for the receiver
Accepted(env, o1, o2) ==
  \E c \in DOMAIN o1 : o2[c].queue = Append(o1[c].queue, env.data.val)

\* C19: every envelope handed to post on a mailbox, for one of its own ports,
\* or on the sender for undeliverable messages, has, when the post returns,
\* exactly one of two outcomes: its payload was accepted into the queue of a
\* channel for the receiver, or the envelope was sent once to the return
\* handle given, with its error set.
C19_DeliveredOrReturned ==
  [][(/\ last'.op = "post"
      /\ last'.res \in {"mailbox", "undeliverable_sender"}
      /\ last'.env.dest[1] = MA
      /\ last'.out # <<"blocked">>) =>
       LET env == last'.env
           ret == /\ Len(returned'[last'.rh]) = 1
                  /\ Failed(env, returned'[last'.rh][1])
       IN (Accepted(env, opened, opened') /\ ~ret) \/ (~Accepted(env, opened, opened') /\ ret)]_vars

\* C20: Mailbox.post always returns: no post is left waiting, a post to a
\* split port, whose sink posts again on the same mailbox while the entry of
\* the split port is held, included.
C20_PostReturns == last.op = "post" => last.out # <<"blocked">>

\* the channel c has no sender: its handle and the handle's clones are
\* dropped and no entry of a ports map sends to it
NoSender(o, pm, c) ==
  /\ o[c].tx = "dropped"
  /\ \A p \in DOMAIN pm : pm[p].kind = "unbounded" => pm[p].chan # c

\* C21: on a receiver whose queue has no sender left, recv and try_recv hand
\* out what is queued, the head first (with coalescing the last message, and
\* the queue is emptied), and on the empty queue return Closed and change
\* nothing; a queue without senders gets no sender and no message again, so
\* Closed is returned on every later attempt.  With a sender alive and the
\* queue empty, try_recv returns None, drain returns the empty list, recv
\* does not return, and nothing changes.
C21_ClosedAfterDrain ==
  [][/\ last'.op \in {"recv", "try_recv", "drain"} =>
          LET c == last'.pid
              q == opened[c].queue
              alive == ~NoSender(opened, ports, c)
          IN /\ (q # <<>> /\ last'.op # "drain") =>
                  /\ last'.res = "Ok"
                  /\ last'.out = <<IF Coalesce(c) THEN Last(q) ELSE Head(q)>>
                  /\ opened'[c].queue = IF Coalesce(c) THEN <<>> ELSE Tail(q)
             /\ (q = <<>> /\ ~alive /\ last'.op # "drain") =>
                  last'.res = "Closed" /\ opened' = opened
             /\ (q = <<>> /\ alive) =>
                  /\ last'.op # "recv"
                  /\ last'.op = "try_recv" => last'.res = "None"
                  /\ last'.op = "drain" => last'.out = <<>>
                  /\ opened' = opened
     /\ \A c \in DOMAIN opened :
          NoSender(opened, ports, c) =>
            /\ NoSender(opened', ports', c)
            /\ Len(opened'[c].queue) <= Len(opened[c].queue)]_vars

\* two messages were sent, the handle of the unbound port was dropped, the
\* receiver got both in order, and the next try_recv has returned Closed
C21_Witness ==
  /\ last.op = "try_recv"
  /\ last.res = "Closed"
  /\ opened[last.pid].kind = "port"
  /\ Len(opened[last.pid].sent) = 2
  /\ opened[last.pid].sent[1] # opened[last.pid].sent[2]
  /\ opened[last.pid].got = opened[last.pid].sent

\* the server task ends in this step
Ends == server.pc # "done" /\ server'.pc = "done"

Delivered(o, p) == o[p].got \o o[p].queue

BrokenLinkReturned(env, rh, ret) ==
  /\ ret[rh] = <<[env EXCEPT !.error =
                    DeliveryError("BrokenLink", "failed to enqueue in MailboxClient")]>>
  /\ \A h \in ReturnHandles \ {rh} : ret[h] = <<>>

\* C24: an envelope the client cannot enqueue, because the queue of its
\* buffer is closed when it is posted or because try_post of the transport
\* rejects it, comes back once on the return handle of the caller as
\* BrokenLink("failed to enqueue in MailboxClient") and goes nowhere else; an
\* envelope the transport reports failed through its ack channel leaves the
\* transport and is sent once to the same handle; an envelope that is
\* enqueued comes back on no handle.
C24_EnqueueFailureReturned ==
  [][/\ (last'.op = "post" /\ last'.res = "client") =>
          IF server.client \in buf_closed
          THEN /\ BrokenLinkReturned(last'.env, last'.rh, returned')
               /\ client_buf' = client_buf /\ wire' = wire
          ELSE /\ returned' = NoReturns
               /\ client_buf'[server.client]
                    = Append(client_buf[server.client], [env |-> last'.env, rh |-> last'.rh])
     /\ last'.op = "client_process" =>
          /\ Len(client_buf'[server.client]) = Len(client_buf[server.client]) - 1
          /\ last'.env = Head(client_buf[server.client]).env
          /\ last'.rh = Head(client_buf[server.client]).rh
          /\ IF last'.res = "Err"
             THEN BrokenLinkReturned(last'.env, last'.rh, returned') /\ wire' = wire
             ELSE returned' = NoReturns
                    /\ wire' = Append(wire, [env |-> last'.env, rh |-> last'.rh])
     /\ last'.op = "ack_fail" =>
          /\ \E i \in 1..Len(wire) : wire[i] = [env |-> last'.env, rh |-> last'.rh]
          /\ Len(wire') = Len(wire) - 1
          /\ returned'[last'.rh] = <<last'.env>>
          /\ \A h \in ReturnHandles \ {last'.rh} : returned'[h] = <<>>
          /\ client_buf' = client_buf
     /\ (last'.op \in {"post", "client_process", "ack_fail"}) => opened' = opened]_vars

\* the second envelope is posted after the buffer of the client closed, and
\* comes back to the caller as a broken link
C24_Witness ==
  /\ last.op = "post" /\ last.res = "client"
  /\ server.client \in buf_closed
  /\ Len(posted) = 2
  /\ BrokenLinkReturned(posted[2], "caller", returned)
\* a is b with some of its elements left out
RECURSIVE IsSubSeq(_, _)
IsSubSeq(a, b) ==
  IF a = <<>> THEN TRUE
  ELSE IF b = <<>> THEN FALSE
  ELSE IF Head(a) = Head(b) THEN IsSubSeq(Tail(a), Tail(b))
  ELSE IsSubSeq(a, Tail(b))

\* the payloads of the envelopes posted to the served client, in order
PostedVals == [i \in 1..Len(posted) |-> posted[i].data.val]

\* C25: what the receiver of a port is handed, and what waits in its queue,
\* through one client, its transport and the server, is in the order the
\* envelopes were posted to the client: the payloads posted, with those left
\* out that were returned or are still on their way.
C25_LinkFifo ==
  \A p \in DOMAIN opened : IsSubSeq(Delivered(opened, p), PostedVals)

\* two envelopes with different payloads were posted and both are delivered,
\* the first taken by the receiver and the second queued
C25_Witness ==
  /\ Len(posted) = 2 /\ posted[1] # posted[2]
  /\ \E p \in DOMAIN opened :
       /\ opened[p].got = <<posted[1].data.val>>
       /\ opened[p].queue = <<posted[2].data.val>>
\* C26: a post through the weak router does what the same post through the
\* router does, on the table as it is now, as long as a strong handle is
\* alive; once none is, the envelope comes back once as
\* BrokenLink("failed to upgrade WeakMailboxRouter") and nothing is delivered
\* or forwarded.
C26_WeakAsStrong ==
  [][(last'.op = "post" /\ last'.res = "weak") =>
       IF strong > 0
       THEN LET r == RouterPost(last'.env, last'.rh, St)
            IN /\ ports' = r.ports /\ opened' = r.opened
               /\ returned' = r.returned /\ forwarded' = r.forwarded
       ELSE /\ returned'[last'.rh] =
                 <<[last'.env EXCEPT !.error =
                      DeliveryError("BrokenLink", "failed to upgrade WeakMailboxRouter")]>>
            /\ \A h \in ReturnHandles \ {last'.rh} : returned'[h] = <<>>
            /\ forwarded' = <<>>
            /\ opened' = opened /\ ports' = ports]_vars

\* a post through the weak router, with two strong handles alive, is
\* delivered to the port of the mailbox bound in the table
C26_Witness ==
  /\ last.op = "post" /\ last.res = "weak"
  /\ strong = 2
  /\ last.env.dest \in DOMAIN opened
  /\ opened[last.env.dest].queue = <<last.env.data.val>>
  /\ returned = NoReturns
\* the port a chain of splits ends in
RECURSIVE Root(_, _)
Root(o, p) == IF o[p].kind = "split" THEN Root(o, o[p].chan) ELSE p

\* the port p is bound to the channel opened for it, its receiver lives and
\* the payload is of its type
Takes(p, data) ==
  /\ p \in DOMAIN ports /\ ports[p].kind = "unbounded" /\ ports[p].chan = p
  /\ opened[p].kind = "port" /\ opened[p].rx = "alive"
  /\ data.typ = opened[p].ty

\* C27: every update posted to a port split without a reducer, directly from
\* a port or through a chain of splits, is forwarded as it is, one for one:
\* the queue of the port at the end of the chain gets this payload once, and
\* no other queue changes.
C27_SplitForwards ==
  [][(/\ last'.op = "post" /\ last'.res = "mailbox"
      /\ IsSplit(last'.env.dest)
      /\ Takes(Root(opened, last'.env.dest), last'.env.data)) =>
       LET root == Root(opened, last'.env.dest)
       IN /\ opened'[root].queue = Append(opened[root].queue, last'.env.data.val)
          /\ \A c \in DOMAIN opened \ {root} : opened'[c].queue = opened[c].queue
          /\ returned' = NoReturns]_vars
\* the reduction of the j-th batch of n of the updates us
Batch(us, n, j) == reduce_updates(SubSeq(us, (j - 1) * n + 1, j * n)).data.val

\* C28: a port split with a reducer and buffer size N that was handed k
\* updates has posted k \div N messages to the port it was split from, the
\* j-th being the reduction of the j-th batch of N updates, and holds the
\* last k % N updates in its buffer; with N = 1 every update is posted as its
\* own reduction.
C28_ReduceEveryN ==
  \A p \in DOMAIN opened :
    opened[p].kind = "reduce" =>
      LET us == opened[p].got
          n == opened[p].state
          k == Len(us)
      IN /\ opened[opened[p].chan].sent = [j \in 1..(k \div n) |-> Batch(us, n, j)]
         /\ opened[p].queue = SubSeq(us, (k \div n) * n + 1, k)
\* C29: no bind replaces an entry of the ports map.  bind_to on an occupied
\* index panics; bind, bind_once and the bind_untyped of split on an occupied
\* index leave the map as it is; and in every step an entry that is in the
\* map before and after is the same sender.
C29_BindNeverReplaces ==
  [][/\ \A p \in DOMAIN ports \cap DOMAIN ports' : ports'[p] = ports[p]
     /\ (last'.op = "bind_to" /\ last'.pid \in DOMAIN ports) =>
          last'.res = "panic" /\ ports' = ports
     /\ (last'.op \in {"bind", "bind_once", "split"} /\ last'.pid \in DOMAIN ports) =>
          ports' = ports]_vars

\* bind on a handle whose index another handle's sender occupies, through
\* bind_to: the entry is still that other sender
C29_Witness ==
  /\ last.op = "bind"
  /\ last.pid \in DOMAIN ports
  /\ opened[last.pid].bound
  /\ ports[last.pid].chan # opened[last.pid].chan
\* every handle of the port c is dropped
HandlesGone(c) == opened[c].tx = "dropped"

\* the ports map holds the sender bound from the handle of c
BoundIn(pm, c) == c \in DOMAIN pm /\ pm[c].kind = "unbounded" /\ pm[c].chan = c

\* C30: a bound port stays open when all its handles are dropped: while its
\* receiver lives the entry stays, a post to it is delivered to its queue and
\* returned on no handle, and recv and try_recv do not report Closed.  A port
\* never bound whose handles are all dropped hands out what is queued and
\* then reports Closed.
C30_BoundStaysOpen ==
  [][\A c \in DOMAIN opened :
       (HandlesGone(c) /\ opened[c].rx = "alive") =>
         IF BoundIn(ports, c)
         THEN /\ BoundIn(ports', c)
              /\ (last'.op = "post" /\ last'.pid = c /\ last'.env.data.typ = opened[c].ty) =>
                   /\ opened'[c].sent = Append(opened[c].sent, last'.env.data.val)
                   /\ opened'[c].queue # <<>>
                   /\ returned' = NoReturns
              /\ (last'.op \in {"recv", "try_recv"} /\ last'.pid = c) =>
                   last'.res # "Closed"
         ELSE (last'.op \in {"recv", "try_recv"} /\ last'.pid = c) =>
                IF opened[c].queue = <<>>
                THEN last'.res = "Closed"
                ELSE last'.res = "Ok" /\ last'.out # <<>>]_vars

\* a post is delivered to a bound port all of whose handles were dropped
C30_Witness ==
  /\ last.op = "post"
  /\ last.pid \in DOMAIN opened
  /\ HandlesGone(last.pid) /\ BoundIn(ports, last.pid)
  /\ opened[last.pid].sent = <<last.env.data.val>>
  /\ returned = NoReturns

\* C31: when channel::dial fails for the address a destination resolves to,
\* DialMailboxRouter.post returns the envelope once, on the return handle of
\* the caller, as Unroutable("cannot dial destination"), adds nothing to the
\* sender cache, makes no client and leaves the address book as it is; a post
\* that resolves to an address without a cached sender always calls dial, so
\* the post after a failed dial dials again.
C31_DialFailureReturned ==
  [][(last'.op = "post" /\ last'.res = "dial") =>
       \A a \in lookup_addr(last'.env.dest[1]) :
         /\ a \notin DOMAIN sender_cache => dials'[a].calls = dials[a].calls + 1
         /\ (a \notin DOMAIN sender_cache /\ dials'[a].made = dials[a].made) =>
              /\ returned'[last'.rh]
                   = <<[last'.env EXCEPT !.error =
                          DeliveryError("Unroutable", "cannot dial destination")]>>
              /\ \A h \in ReturnHandles \ {last'.rh} : returned'[h] = <<>>
              /\ sender_cache' = sender_cache
              /\ address_book' = address_book
              /\ client_buf' = client_buf
              /\ opened' = opened]_vars

\* a second post to an address has just called dial again, after the first
\* call for it failed, and failed too: no sender is cached for the address
C31_Witness ==
  /\ last.op = "post" /\ last.res = "dial"
  /\ \E a \in lookup_addr(last.env.dest[1]) :
       /\ dials[a].calls = 2 /\ dials[a].made = 0
       /\ a \notin DOMAIN sender_cache
  /\ returned["caller"]
       = <<[last.env EXCEPT !.error =
              DeliveryError("Unroutable", "cannot dial destination")]>>
  /\ client_buf = <<>>

\* a post through the router has done what the table entry at the one key of
\* sel does with the envelope when that key is a prefix of the destination,
\* and has returned the envelope as unroutable when sel is empty or its key
\* is no prefix
RouterPosted(sel) ==
  LET e == last'.env
      acc == {k \in sel : is_prefix_of(k, e.dest[1])}
      r == IF acc = {}
           THEN undeliverable(e, DeliveryError("Unroutable",
                  "no destination found for actor in routing table"), last'.rh, St)
           ELSE MailboxPost(entries[CHOOSE k \in acc : TRUE], e, last'.rh, St)
  IN /\ ports' = r.ports /\ opened' = r.opened
     /\ returned' = r.returned /\ forwarded' = r.forwarded

\* C32 as stated: MailboxRouter.post selects the greatest bound key strictly
\* less than the reference of the destination, so that a key equal to it is
\* never the one selected.
C32_SelectsStrictlyLess ==
  [][(last'.op = "post" /\ last'.res = "router") =>
       RouterPosted({k \in DOMAIN entries :
                       /\ RefLess(k, last'.env.dest[1])
                       /\ \A j \in DOMAIN entries :
                            RefLess(j, last'.env.dest[1]) => RefLeq(j, k)})]_vars

\* C32 amended: MailboxRouter.post selects the greatest bound key that is not
\* greater than the reference of the destination, which is the destination's
\* own reference when that is bound, and accepts it if and only if the key is
\* a prefix of the destination; otherwise the envelope is returned as
\* Unroutable.
C32_SelectsNotGreater ==
  [][(last'.op = "post" /\ last'.res = "router") =>
       RouterPosted({k \in DOMAIN entries :
                       /\ RefLeq(k, last'.env.dest[1])
                       /\ \A j \in DOMAIN entries :
                            RefLeq(j, last'.env.dest[1]) => RefLeq(j, k)})]_vars

\* the actor id of the destination is itself a key of the table, beside the
\* key of its proc, and the post is delivered by the mailbox bound at the
\* actor id
C32_Witness ==
  /\ last.op = "post" /\ last.res = "router"
  /\ DOMAIN entries = {<<1, 0>>, MB}
  /\ last.env.dest[1] = MB
  /\ entries[MB] = MB
  /\ last.env.dest \in DOMAIN opened
  /\ opened[last.env.dest].queue = <<last.env.data.val>>
  /\ returned = NoReturns

\* C33 as stated: for tasks that post at the same time to destinations
\* resolving to one address, dial is called at most once for the address and
\* every post goes through the cached client, none coming back undialed.
C33_DialCalledOnce ==
  \A a \in Addrs :
    /\ dials[a].calls <= 1
    /\ ~(last.op = "post" /\ last.res = "dial" /\ last.out = <<"failed", a>>)

\* C33 amended: for tasks that post at the same time to destinations
\* resolving to one address, at most one call of dial for the address
\* succeeds and at most one client is made for it; one task at a time holds
\* the vacant entry; every task whose call of dial returned a client holds
\* the client cached for the address, and its post goes into the buffer of
\* that client.  A post whose call of dial failed is returned, and the next
\* call of dial for the address dials again.
C33_OneClientUnderContention ==
  /\ [](/\ \A a \in Addrs :
             /\ dials[a].made <= 1
             /\ dials[a].made = 1 <=> a \in DOMAIN sender_cache
             /\ Cardinality({t \in Tasks : tasks[t].pc = "vacant" /\ tasks[t].loc[1] = a}) <= 1
        /\ \A t \in Tasks :
             tasks[t].pc = "send" =>
               /\ tasks[t].loc[1] \in DOMAIN sender_cache
               /\ sender_cache[tasks[t].loc[1]] = tasks[t].loc[2])
  /\ [][(last'.op = "post" /\ last'.res = "dial" /\ last'.out[1] = "sent") =>
          LET c == sender_cache[last'.out[2]]
          IN /\ last'.out[3] = c
             /\ client_buf' = [client_buf EXCEPT ![c] =
                                 Append(@, [env |-> last'.env, rh |-> last'.rh])]
             /\ returned' = NoReturns
             /\ sender_cache' = sender_cache /\ dials' = dials]_vars

\* two tasks are in their posts at once, both hold the one client made by
\* the one call of dial for the address both looked up
C33_Witness ==
  /\ tasks[1].pc = "send" /\ tasks[2].pc = "send"
  /\ tasks[1].loc = tasks[2].loc
  /\ dials[tasks[1].loc[1]] = [calls |-> 1, made |-> 1]
  /\ client_buf = << <<>> >>

\* C34: for tasks that send updates at the same time on clones of one
\* accumulator handle, the states are queued in the order the folds are
\* applied: the i-th state queued is the fold of the initial state with the
\* first i updates in the order of folding, a task between its fold and its
\* queueing holds the only state not yet queued, and when no send is in
\* progress the last state queued is the fold of all updates sent.
C34_FoldOrder ==
  \A c \in DOMAIN opened :
    opened[c].kind = "accum" =>
      LET busy == {t \in Tasks : tasks[t].pc = "folded" /\ tasks[t].loc[1] = c}
      IN /\ \A i \in 1..Len(opened[c].queue) :
              opened[c].queue[i] = Fold(AccumDefault, SubSeq(opened[c].sent, 1, i))
         /\ Len(opened[c].sent) = Len(opened[c].queue) + Cardinality(busy)
         /\ Cardinality(busy) <= 1
         /\ opened[c].state = Fold(AccumDefault, opened[c].sent)

\* two tasks were in their sends at once; the one with the smaller update
\* got the lock first and has queued its state, the other now holds the lock
\* and has folded: the state queued is 1, the state to queue is 2
C34_Witness ==
  /\ \E c \in DOMAIN opened :
       /\ opened[c].kind = "accum"
       /\ opened[c].sent = <<1, 2>>
       /\ opened[c].queue = <<1>>
       /\ opened[c].state = 2
  /\ tasks[1].pc = "folded" /\ tasks[1].loc[2] = 2
  /\ tasks[2].pc = "idle"
  /\ last.op = "accumulate"

\* C35: under posts by several tasks to one port split with a reducer, every
\* update handed to the split port is in exactly one batch or still in the
\* buffer, every batch reduced holds exactly the configured number of
\* updates, and the reductions are at the port split from in the order in
\* which their batches were completed.
C35_BatchesInOrder ==
  \A p \in DOMAIN opened :
    opened[p].kind = "reduce" =>
      LET us == opened[p].got
          n == opened[p].state
          res == opened[opened[p].chan].sent
      IN /\ Len(opened[p].queue) < n
         /\ Len(us) = n * Len(res) + Len(opened[p].queue)
         /\ \A j \in 1..Len(res) : res[j] = Batch(us, n, j)
         /\ \A i \in 1..Len(opened[p].queue) : opened[p].queue[i] = us[n * Len(res) + i]

\* C36: flush returns Ok only when the items processed are at least as many
\* as the items enqueued when it was called; the items are processed one at
\* a time in the order in which the queue accepted them; the processed count
\* is never above the enqueue counter; a call of flush returns, and it
\* returns an error only when the task of the buffer is gone.
C36_FlushCatchesUp ==
  /\ [](buffer.made =>
          /\ buffer.flush = "Ok" => Len(buffer.done) >= buffer.at_call
          /\ buffer.flush = "Err" => buffer.task = "ended"
          /\ buffer.processed = Len(buffer.done)
          /\ buffer.processed <= buffer.seq
          /\ IF buffer.task = "ended"
             THEN /\ Len(buffer.done) <= Len(buffer.sent)
                  /\ buffer.done = SubSeq(buffer.sent, 1, Len(buffer.done))
             ELSE buffer.sent = buffer.done
                      \o (IF buffer.task = "process" THEN <<buffer.cur>> ELSE <<>>)
                      \o buffer.queue)
  /\ ((buffer.made /\ Flushing) ~> (buffer.made /\ buffer.flush \in {"Ok", "Err"}))

\* flush was called with two items enqueued, sent in the order 2, 1, and
\* has returned Ok with both processed in that order
C36_Witness ==
  /\ buffer.made
  /\ buffer.flush = "Ok" /\ last.op = "flush"
  /\ buffer.at_call = 2 /\ buffer.target = 2
  /\ buffer.done = <<2, 1>>
  /\ buffer.task = "recv"

\* C37: stop panics exactly when it is called a second time on the handle: a
\* first call does not panic, also not when the task of the server has ended
\* because its channel was closed, and a second call panics.
C37_PanicsOnSecondCall ==
  last.op = "stop" => (last.res = "Panic" <=> last.out = <<2>>)

\* C38: when several tasks post at the same time to one bound one-shot port,
\* the post that gets the entry first with a payload of the port's type, the
\* receiver alive, is delivered and takes the entry out of the map; every
\* other post comes back once on its return handle with an error and leaves
\* the channel alone; the receiver never gets two messages and every post
\* has one of the two outcomes.
C38_OneDelivered ==
  /\ [](\A p \in DOMAIN opened :
          opened[p].kind = "once" =>
            /\ Len(opened[p].sent) <= 1
            /\ Len(opened[p].got) <= 1
            /\ opened[p].sent # <<>> => p \notin DOMAIN ports)
  /\ [][(last'.op = "post" /\ last'.res = "mailbox"
           /\ last'.pid \in DOMAIN opened /\ opened[last'.pid].kind = "once") =>
          LET p == last'.pid
          IN IF /\ p \in DOMAIN ports /\ opened[p].sent = <<>>
                /\ opened[p].rx = "alive" /\ last'.env.data.typ = opened[p].ty
             THEN /\ opened'[p].sent = <<last'.env.data.val>>
                  /\ opened'[p].queue = <<last'.env.data.val>>
                  /\ returned' = NoReturns
                  /\ p \notin DOMAIN ports'
             ELSE /\ Len(returned'[last'.rh]) = 1
                  /\ Failed(last'.env, returned'[last'.rh][1])
                  /\ \A h \in ReturnHandles \ {last'.rh} : returned'[h] = <<>>
                  /\ opened'[p].sent = opened[p].sent
                  /\ opened'[p].queue = opened[p].queue]_vars

\* two tasks were in their posts to the port at once; the post of 1 was
\* delivered and is with the receiver, the post of 2 has just come back
C38_Witness ==
  /\ last.op = "post" /\ last.res = "mailbox"
  /\ last.pid \in DOMAIN opened /\ opened[last.pid].kind = "once"
  /\ last.env.data = Serialize("u64", 2)
  /\ opened[last.pid].sent = <<1>> /\ opened[last.pid].queue = <<1>>
  /\ opened[last.pid].rx = "alive"
  /\ Len(returned["caller"]) = 1
  /\ Failed(last.env, returned["caller"][1])
  /\ \A t \in Tasks : tasks[t].pc = "idle"

\* C39: in every state of a DialMailboxRouter, with post, bind and unbind
\* called at the same time, each address with a cached sender is the value
\* of an entry of the address book.
C39_CachedAddressesBound ==
  \A a \in DOMAIN sender_cache : \E k \in DOMAIN address_book : address_book[k] = a

\* C40: for a handle that open_port returned, the index allocated for it is
\* not occupied by the sender of another handle when bind first runs,
\* whatever bind_to calls came before on the mailbox, and the port that the
\* returned reference names delivers to the handle's own receiver; a repeated
\* bind leaves the port map as it is.
C40_BindNamesOwnPort ==
  [][last'.op = "bind" =>
       LET h == last'.pid
       IN /\ (~opened[h].bound /\ h \in DOMAIN ports) => ports[h].chan = opened[h].chan
          /\ h \in DOMAIN ports' => ports'[h].chan = opened[h].chan
          /\ opened[h].bound => ports' = ports]_vars

====
